---- MODULE Spec2Model ----
(***************************************************************************)
(* Model of the peernet core: the peer registry (Peer ID.go), the command  *)
(* handlers and the keep-alive scheduler (Commands.go), the interface      *)
(* monitor (Network Detection.go) and the listener set-up (Network         *)
(* Init.go).                                                               *)
(*                                                                         *)
(* Time is a clock of whole seconds.  time.Time's zero value is modelled   *)
(* by 0 and the clock starts at Epoch, later than every threshold, so the  *)
(* zero value precedes every threshold, as it does in Go.                  *)
(***************************************************************************)
EXTENDS Integers, Sequences, FiniteSets, TLC

(***************************************************************************)
(* Bounds of the model.                                                    *)
(***************************************************************************)
MaxConns == 3
MaxTicks == 2
MaxErrLen == 3
MaxListen == 2
MaxCycles == 2
MaxListeners == 3
CurveOrder == 31
Epoch == 100

(***************************************************************************)
(* Program constants, Commands.go.                                         *)
(***************************************************************************)
CommandAnnouncement == 0
CommandResponse == 1
CommandPing == 2
CommandPong == 3
pingTime == 10
connectionInvalidate == 22
connectionRemove == 2 * 60

Keys == {"K1", "K2"}
PeerIds == 1 .. Cardinality(Keys)
ConnIds == 1 .. MaxConns
NoPeer == 0
NoConn == 0

\* Durations after which time.Sleep(time.Second) may return: the second it
\* asks for, or longer when the process was not scheduled (suspended host).
SleepDurations == {1, pingTime + 1, connectionInvalidate + 1, 4 * pingTime + 1,
                   4 * connectionInvalidate + 1, connectionRemove + 1}

ConnectionActive == "Active"
ConnectionRedundant == "Redundant"
ConnectionInactive == "Inactive"
ConnectionRemoved == "Removed"
Unallocated == "Unallocated"

VARIABLES
    now,        \* wall clock, seconds
    peerList,   \* map: public key -> *PeerInfo (NoPeer: no entry)
    peers,      \* the PeerInfo objects
    conns,      \* the Connection objects
    ev,         \* what the last step did
    \* autoPingAll
    ticks,      \* keep-alive ticks started so far
    kpc,        \* position of the scheduler
    kPeers,     \* peers of the PeerlistGet snapshot not yet visited
    kPeer,      \* loop variable peer
    kQueue,     \* connections of the GetConnections snapshot not yet visited
    tickTimedOut, \* connections invalidated at Commands.go:122 in the tick under way
    tickPinged,   \* connections sendPing was called on in the tick under way
    \* the packet workers
    peerlistMutex, \* the worker that holds peerlistMutex for writing, or NoWorker
    wpc,        \* position of each worker
    wMsg,       \* the packet each worker handles
    wPeer,      \* the peer each worker resolved for its packet
    wRet,       \* what PeerlistAdd returned to each worker
    wSent,      \* the packets each worker has sent while handling its packet
    addedCount, \* per public key, the calls of PeerlistAdd that returned added
    \* the network
    configListen, \* config.Listen
    osIfaces,   \* what the operating system reports: interface -> addresses
    listeners,  \* the Network objects
    networks4,  \* the IPv4 listeners
    networks6,  \* the IPv6 listeners
    ipsListen,  \* the addresses listened on
    ifacesExist, \* networkChangeMonitor: the snapshot of the cycle before
    ifacesNew,  \* networkChangeMonitor: the snapshot under construction
    mpc,        \* initNetwork and networkChangeMonitor: position
    mQueue,     \* initNetwork and networkChangeMonitor: entries not yet visited
    mRemoved,   \* networkChangeMonitor: interfaces of the old snapshot not yet visited
    cycles,     \* networkChangeMonitor: cycles started
    mEvents,    \* networkChangeMonitor: the calls networkChange... of the latest cycle
    \* the locks
    networksMutex, \* networksMutex: the goroutines that hold it, and how
    peerMutex,  \* per PeerInfo, its RWMutex: the goroutines that hold it, and how
    \* the identity of the peer itself
    configPrivateKey, \* config.PrivateKey, as the configuration file holds it
    peerPrivateKey,   \* peerPrivateKey
    peerPublicKey,    \* peerPublicKey
    ipc         \* position of initPeerID in the process that runs

registryVars == <<now, peerList, peers, conns, ev>>
keepAliveVars == <<ticks, kpc, kPeers, kPeer, kQueue, tickTimedOut, tickPinged>>
workerVars == <<peerlistMutex, wpc, wMsg, wPeer, wRet, wSent, addedCount>>

networkVars == <<configListen, osIfaces, listeners, networks4, networks6, ipsListen,
                 ifacesExist, ifacesNew, mpc, mQueue, mRemoved, cycles, mEvents>>

lockVars == <<networksMutex, peerMutex>>

idVars == <<configPrivateKey, peerPrivateKey, peerPublicKey, ipc>>

vars == <<registryVars, keepAliveVars, workerVars, networkVars, lockVars, idVars>>

NoEvent == [type |-> "none"]

\* config.ListenWorkers when the configuration leaves it 0
ListenWorkers == 2
\* the first port the system assigns by itself
FirstAutoPort == 1024
NoAddr == <<>>
Workers == 1 .. ListenWorkers
NoWorker == 0
NoPacket == [Command |-> -1, SenderPublicKey |-> "", connection |-> NoConn]
NoReturn == [peer |-> NoPeer, added |-> FALSE]

\* time.Time.Before
Before(t, u) == t < u

Range(s) == {s[i] : i \in 1 .. Len(s)}

RECURSIVE SeqRemove(_, _)
\* s without the first occurrence of x
SeqRemove(s, x) ==
    IF s = <<>> THEN <<>>
    ELSE IF Head(s) = x THEN Tail(s)
    ELSE <<Head(s)>> \o SeqRemove(Tail(s), x)

\* sequences of distinct elements of S, of length n
DistinctSeqs(S, n) ==
    {s \in [1 .. n -> S] : \A i, j \in 1 .. n : i # j => s[i] # s[j]}

NoPeerInfo == [PublicKey |-> "", connectionActive |-> <<>>,
               connectionInactive |-> <<>>, connectionLatest |-> NoConn]

NoConnection == [Status |-> Unallocated, LastPacketIn |-> 0,
                 LastPingOut |-> 0, Expires |-> 0]

AllocatedPeers == {p \in PeerIds : peers[p] # NoPeerInfo}

\* new(PeerInfo): the next object of the heap
NewPeerId == Cardinality(AllocatedPeers) + 1

(***************************************************************************)
(* Peer ID.go: the registry.                                               *)
(***************************************************************************)

\* PeerlistAdd under the lock, without the lookup of the key
PeerlistAddLocked_NoLookup(pl, ps, PublicKey, connections) ==
    LET id == Cardinality({p \in PeerIds : ps[p] # NoPeerInfo}) + 1
        info == [PublicKey |-> PublicKey,
                 connectionActive |-> connections,
                 connectionInactive |-> <<>>,
                 connectionLatest |-> connections[1]]
    IN  [peerList |-> [pl EXCEPT ![PublicKey] = id],
         peers |-> [ps EXCEPT ![id] = info],
         peer |-> id, added |-> TRUE]

\* PeerlistAdd, the part under peerlistMutex.  The result is the registry,
\* the heap of peers and the two return values.
PeerlistAddLocked(pl, ps, PublicKey, connections) ==
    IF pl[PublicKey] # NoPeer
    THEN [peerList |-> pl, peers |-> ps, peer |-> pl[PublicKey], added |-> FALSE]
    ELSE LET id == Cardinality({p \in PeerIds : ps[p] # NoPeerInfo}) + 1
             info == [PublicKey |-> PublicKey,
                      connectionActive |-> connections,
                      connectionInactive |-> <<>>,
                      connectionLatest |-> connections[1]]
         IN  [peerList |-> [pl EXCEPT ![PublicKey] = id],
              peers |-> [ps EXCEPT ![id] = info],
              peer |-> id, added |-> TRUE]

\* PeerlistAdd
PeerlistAdd(pl, ps, PublicKey, connections) ==
    IF Len(connections) = 0
    THEN [peerList |-> pl, peers |-> ps, peer |-> NoPeer, added |-> FALSE]
    ELSE PeerlistAddLocked(pl, ps, PublicKey, connections)

\* PeerlistRemove that empties the peer list
PeerlistRemove_All(pl, ps, peer) == [k \in DOMAIN pl |-> NoPeer]

\* PeerlistRemove: delete(peerList, publicKey2Compressed(peer.PublicKey))
PeerlistRemove(pl, ps, peer) ==
    [k \in DOMAIN pl |-> IF k = ps[peer].PublicKey THEN NoPeer ELSE pl[k]]

\* PeerlistGet: the peers of the registry
PeerlistGet == {peerList[k] : k \in Keys} \ {NoPeer}

(***************************************************************************)
(* Peer-level operations whose code is not part of the sources at hand.    *)
(***************************************************************************)

\* peer.GetConnections(active): a copy of the list
GetConnections(p, active) ==
    IF active THEN peers[p].connectionActive ELSE peers[p].connectionInactive

\* peer.invalidateActiveConnection: the connection becomes Inactive, its
\* expiry starts, it leaves the active list and joins the inactive list.
invalidateActiveConnection(ps, cs, p, c) ==
    [peers |-> [ps EXCEPT ![p].connectionActive = SeqRemove(@, c),
                          ![p].connectionInactive = Append(@, c)],
     conns |-> [cs EXCEPT ![c].Status = ConnectionInactive,
                          ![c].Expires = now + connectionRemove]]

\* peer.removeInactiveConnection: the connection leaves the inactive list.
removeInactiveConnection(ps, cs, p, c) ==
    IF c \in Range(ps[p].connectionInactive)
    THEN [peers |-> [ps EXCEPT ![p].connectionInactive = SeqRemove(@, c)],
          conns |-> [cs EXCEPT ![c].Status = ConnectionRemoved]]
    ELSE [peers |-> ps, conns |-> cs]

(***************************************************************************)
(* Network Detection.go: classification of send errors.  An error text is  *)
(* a sequence of words; nil is the error that is none.                     *)
(***************************************************************************)
NilError == <<>>
ErrorWords == {"wsasendto:", "requested address is not valid", "in its context"}
\* "requested address is not valid in its context"
FatalPattern == <<"requested address is not valid", "in its context">>
ErrorTexts == UNION {[1 .. n -> ErrorWords] : n \in 1 .. MaxErrLen}
Errors == {NilError} \cup ErrorTexts

\* strings.Contains
Contains(s, substr) ==
    \E i \in 0 .. Len(s) - Len(substr) :
        \A j \in 1 .. Len(substr) : s[i + j] = substr[j]

\* IsNetworkErrorFatal that takes every error for a broken connection
IsNetworkErrorFatal_AnyError(err) == err # NilError

\* IsNetworkErrorFatal
IsNetworkErrorFatal(err) ==
    IF err = NilError THEN FALSE
    ELSE IF Contains(err, FatalPattern) THEN TRUE
    ELSE FALSE

(***************************************************************************)
(* Commands.go: the keep-alive scheduler.                                  *)
(***************************************************************************)
thresholdInvalidate1 == now - connectionInvalidate
thresholdInvalidate2 == now - connectionInvalidate * 4
thresholdPingOut1 == now - pingTime
thresholdPingOut2 == now - pingTime * 4

\* sendPing without the check of the connection's status
sendPing_NoStatusCheck(ps, cs, p, c, err) ==
    LET stamped == [cs EXCEPT ![c].LastPingOut = now]
    IN  IF IsNetworkErrorFatal(err)
        THEN invalidateActiveConnection(ps, stamped, p, c)
        ELSE [peers |-> ps, conns |-> stamped]

\* sendPing that stamps LastPingOut only when the send reported no error
sendPing_StampOnSuccess(ps, cs, p, c, err) ==
    LET stamped == IF err = NilError THEN [cs EXCEPT ![c].LastPingOut = now] ELSE cs
    IN  IF (stamped[c].Status = ConnectionActive \/ stamped[c].Status = ConnectionRedundant)
           /\ IsNetworkErrorFatal(err)
        THEN invalidateActiveConnection(ps, stamped, p, c)
        ELSE [peers |-> ps, conns |-> stamped]

\* sendPing, given the error peer.sendConnection returned
sendPing(ps, cs, p, c, err) ==
    LET stamped == [cs EXCEPT ![c].LastPingOut = now]
    IN  IF (stamped[c].Status = ConnectionActive \/ stamped[c].Status = ConnectionRedundant)
           /\ IsNetworkErrorFatal(err)
        THEN invalidateActiveConnection(ps, stamped, p, c)
        ELSE [peers |-> ps, conns |-> stamped]

\* The decision for an active connection that pings when the last packet or
\* the last ping is older than the threshold
ActiveDecision_PingOnEither(c) ==
    LET thresholdPing == IF conns[c].Status = ConnectionRedundant
                         THEN thresholdPingOut2 ELSE thresholdPingOut1
        thresholdInv == IF conns[c].Status = ConnectionRedundant
                        THEN thresholdInvalidate2 ELSE thresholdInvalidate1
    IN  IF Before(conns[c].LastPacketIn, thresholdInv) THEN "invalidate"
        ELSE IF Before(conns[c].LastPacketIn, thresholdPing)
                \/ Before(conns[c].LastPingOut, thresholdPing) THEN "ping"
        ELSE "none"

\* The decision for an active connection without the Redundant thresholds
ActiveDecision_NormalOnly(c) ==
    IF Before(conns[c].LastPacketIn, thresholdInvalidate1) THEN "invalidate"
    ELSE IF Before(conns[c].LastPacketIn, thresholdPingOut1)
            /\ Before(conns[c].LastPingOut, thresholdPingOut1) THEN "ping"
    ELSE "none"

\* The decision autoPingAll takes for one connection of the active list,
\* Commands.go:113-129.
ActiveDecision(c) ==
    LET thresholdPing == IF conns[c].Status = ConnectionRedundant
                         THEN thresholdPingOut2 ELSE thresholdPingOut1
        thresholdInv == IF conns[c].Status = ConnectionRedundant
                        THEN thresholdInvalidate2 ELSE thresholdInvalidate1
    IN  IF Before(conns[c].LastPacketIn, thresholdInv) THEN "invalidate"
        ELSE IF Before(conns[c].LastPacketIn, thresholdPing)
                /\ Before(conns[c].LastPingOut, thresholdPing) THEN "ping"
        ELSE "none"

\* The decision for an inactive connection that pings at the Redundant
\* threshold
InactiveDecision_SlowPing(p, c) ==
    IF (Len(peers[p].connectionActive) >= 1 \/ Len(peers[p].connectionInactive) > 2)
       /\ Before(conns[c].Expires, now) THEN "remove"
    ELSE IF Before(conns[c].LastPingOut, thresholdPingOut2) THEN "ping"
    ELSE "none"

\* The decision for an inactive connection with the guard at one other
\* inactive connection
InactiveDecision_OneOther(p, c) ==
    IF (Len(peers[p].connectionActive) >= 1 \/ Len(peers[p].connectionInactive) > 1)
       /\ Before(conns[c].Expires, now) THEN "remove"
    ELSE IF Before(conns[c].LastPingOut, thresholdPingOut1) THEN "ping"
    ELSE "none"

\* The decision for an inactive connection that purges every expired
\* connection
InactiveDecision_AnyExpired(p, c) ==
    IF Before(conns[c].Expires, now) THEN "remove"
    ELSE IF Before(conns[c].LastPingOut, thresholdPingOut1) THEN "ping"
    ELSE "none"

\* The decision autoPingAll takes for one connection of the inactive list,
\* Commands.go:134-143.
InactiveDecision(p, c) ==
    IF (Len(peers[p].connectionActive) >= 1 \/ Len(peers[p].connectionInactive) > 2)
       /\ Before(conns[c].Expires, now) THEN "remove"
    ELSE IF Before(conns[c].LastPingOut, thresholdPingOut1) THEN "ping"
    ELSE "none"

(***************************************************************************)
(* The specification of the registry under the keep-alive scheduler.       *)
(***************************************************************************)
FreshConns == {c \in ConnIds : conns[c].Status = Unallocated}

\* The next n Connection objects of the heap
NewConns(n) == [i \in 1 .. n |-> MaxConns - Cardinality(FreshConns) + i]

\* sync.RWMutex: the goroutines that hold it for reading, and the one that
\* holds it for writing
Goroutines == {"monitor", "sender", "scheduler", "worker"}
NoGoroutine == ""
Unlocked == [readers |-> {}, writer |-> NoGoroutine]

\* RWMutex.RLock returns when no goroutine holds the lock for writing
CanRLock(m) == m.writer = NoGoroutine
RLock(m, g) == [m EXCEPT !.readers = @ \cup {g}]
RUnlock(m, g) == [m EXCEPT !.readers = @ \ {g}]
\* RWMutex.Lock returns when no goroutine holds the lock
CanLock(m) == m.writer = NoGoroutine /\ m.readers = {}
Lock(m, g) == [m EXCEPT !.writer = g]
Unlock(m, g) == [m EXCEPT !.writer = NoGoroutine]

\* no lock is held
LocksFree ==
    /\ networksMutex = Unlocked
    /\ peerMutex = [p \in PeerIds |-> Unlocked]

\* a key that is not set: nil
NoKey == [nil |-> TRUE]

\* initPeerID has run in a process that holds no stored key worth a look
IdentityIdle ==
    /\ configPrivateKey = <<>>
    /\ peerPrivateKey = NoKey
    /\ peerPublicKey = NoKey
    /\ ipc = "off"

\* no worker has a packet
WorkersIdle ==
    /\ peerlistMutex = NoWorker
    /\ wpc = [w \in Workers |-> "idle"]
    /\ wMsg = [w \in Workers |-> NoPacket]
    /\ wPeer = [w \in Workers |-> NoPeer]
    /\ wRet = [w \in Workers |-> NoReturn]
    /\ wSent = [w \in Workers |-> <<>>]
    /\ addedCount = [k \in Keys |-> 0]

\* the network is not set up
NetworkIdle ==
    /\ configListen = <<>>
    /\ osIfaces = <<>>
    /\ listeners = <<>>
    /\ networks4 = <<>>
    /\ networks6 = <<>>
    /\ ipsListen = {}
    /\ ifacesExist = <<>>
    /\ ifacesNew = <<>>
    /\ mpc = "off"
    /\ mQueue = <<>>
    /\ mRemoved = {}
    /\ cycles = 0
    /\ mEvents = <<>>

InitKeepAlive ==
    /\ now = Epoch
    /\ ticks = 0
    /\ peerList = [k \in Keys |-> NoPeer]
    /\ peers = [p \in PeerIds |-> NoPeerInfo]
    /\ conns = [c \in ConnIds |-> NoConnection]
    /\ kpc = "sleep"
    /\ kPeers = {}
    /\ kPeer = NoPeer
    /\ kQueue = <<>>
    /\ tickTimedOut = {}
    /\ tickPinged = {}
    /\ ev = NoEvent
    /\ WorkersIdle
    /\ NetworkIdle
    /\ LocksFree
    /\ IdentityIdle

\* The rest of the program runs while the scheduler sleeps or has just woken.
SchedulerIdle == kpc = "sleep" \/ kpc = "woken"

\* A caller registers a peer: PeerlistAdd(PublicKey, connections...) with
\* Connection objects it has just made for packets that came in now.
AddPeer ==
    /\ SchedulerIdle
    /\ \E k \in Keys, n \in 0 .. Cardinality(FreshConns) :
       /\ (peerList[k] = NoPeer /\ n > 0) => NewPeerId \in PeerIds
       /\ \E status \in [1 .. n -> {ConnectionActive, ConnectionRedundant}] :
        LET connections == NewConns(n)
            made == [c \in ConnIds |->
                        IF c \in Range(connections)
                        THEN [Status |-> status[c - connections[1] + 1],
                              LastPacketIn |-> now, LastPingOut |-> 0, Expires |-> 0]
                        ELSE conns[c]]
            r == PeerlistAdd(peerList, peers, k, connections)
        IN  /\ peerList' = r.peerList
            /\ peers' = r.peers
            /\ conns' = IF r.added THEN made ELSE conns
            /\ ev' = [type |-> "add", peer |-> r.peer, added |-> r.added]
    /\ UNCHANGED <<idVars, lockVars, workerVars, networkVars, now, ticks, kpc, kPeers, kPeer, kQueue, tickTimedOut, tickPinged>>

\* A packet comes in on a connection of an active list: LastPacketIn = now.
PacketIn ==
    /\ SchedulerIdle
    /\ \E p \in PeerlistGet : \E c \in Range(peers[p].connectionActive) :
        /\ conns[c].LastPacketIn # now
        /\ conns' = [conns EXCEPT ![c].LastPacketIn = now]
        /\ ev' = [type |-> "packetIn", conn |-> c]
    /\ UNCHANGED <<idVars, lockVars, workerVars, networkVars, now, ticks, peerList, peers, kpc, kPeers, kPeer, kQueue,
                   tickTimedOut, tickPinged>>

\* autoPingAll, Commands.go:104: time.Sleep returns, after a second or more.
KeepAliveSleep ==
    /\ kpc = "sleep"
    /\ ticks < MaxTicks
    /\ \E d \in SleepDurations : now' = now + d
    /\ ticks' = ticks + 1
    /\ kpc' = "woken"
    /\ ev' = [type |-> "sleep"]
    /\ UNCHANGED <<idVars, lockVars, workerVars, networkVars, peerList, peers, conns, kPeers, kPeer, kQueue, tickTimedOut, tickPinged>>

\* autoPingAll, Commands.go:105-110: the thresholds are taken from the clock
\* and PeerlistGet returns the peers.
KeepAliveTick ==
    /\ kpc = "woken"
    /\ kPeers' = PeerlistGet
    /\ kPeer' = NoPeer
    /\ kQueue' = <<>>
    /\ kpc' = "peers"
    /\ tickTimedOut' = {}
    /\ tickPinged' = {}
    /\ ev' = [type |-> "tick"]
    /\ UNCHANGED <<idVars, lockVars, workerVars, networkVars, now, ticks, peerList, peers, conns>>

\* autoPingAll, Commands.go:110-112: the next peer of the snapshot, in the
\* order of the map's iteration, and its active connections.
KeepAliveNextPeer ==
    /\ kpc = "peers"
    /\ IF kPeers = {}
       THEN /\ kpc' = "sleep"
            /\ kPeer' = NoPeer
            /\ tickTimedOut' = {}
            /\ tickPinged' = {}
            /\ UNCHANGED <<kPeers, kQueue>>
       ELSE \E p \in kPeers :
            /\ kPeer' = p
            /\ kPeers' = kPeers \ {p}
            /\ kQueue' = GetConnections(p, TRUE)
            /\ kpc' = "active"
            /\ UNCHANGED <<tickTimedOut, tickPinged>>
    /\ ev' = [type |-> "peer"]
    /\ UNCHANGED <<idVars, lockVars, workerVars, networkVars, now, ticks, peerList, peers, conns>>

\* autoPingAll, Commands.go:112-130: one iteration of the loop over the
\* active connections; Commands.go:133 when the loop ends.
KeepAliveActive ==
    /\ kpc = "active"
    /\ IF kQueue = <<>>
       THEN /\ kQueue' = GetConnections(kPeer, FALSE)
            /\ kpc' = "inactive"
            /\ ev' = [type |-> "activeDone"]
            /\ UNCHANGED <<peers, conns, tickTimedOut, tickPinged>>
       ELSE LET connection == Head(kQueue)
                decision == ActiveDecision(connection)
            IN  /\ kQueue' = Tail(kQueue)
                /\ kpc' = "active"
                /\ CASE decision = "invalidate" ->
                          LET r == invalidateActiveConnection(peers, conns, kPeer, connection)
                          IN  /\ peers' = r.peers
                              /\ conns' = r.conns
                              /\ tickTimedOut' = tickTimedOut \cup {connection}
                              /\ ev' = [type |-> "invalidate", conn |-> connection,
                                        status |-> conns[connection].Status]
                              /\ UNCHANGED tickPinged
                     [] decision = "ping" ->
                          \E err \in Errors :
                          LET r == sendPing(peers, conns, kPeer, connection, err)
                          IN  /\ peers' = r.peers
                              /\ conns' = r.conns
                              /\ tickPinged' = tickPinged \cup {connection}
                              /\ ev' = [type |-> "ping", conn |-> connection,
                                        status |-> conns[connection].Status,
                                        fatal |-> IsNetworkErrorFatal(err)]
                              /\ UNCHANGED tickTimedOut
                     [] OTHER ->
                          /\ ev' = [type |-> "quiet", conn |-> connection,
                                    status |-> conns[connection].Status]
                          /\ UNCHANGED <<peers, conns, tickTimedOut, tickPinged>>
    /\ UNCHANGED <<idVars, lockVars, workerVars, networkVars, now, ticks, peerList, kPeers, kPeer>>

\* autoPingAll, Commands.go:133-144: one iteration of the loop over the
\* inactive connections.
KeepAliveInactive ==
    /\ kpc = "inactive"
    /\ IF kQueue = <<>>
       THEN /\ kpc' = "peers"
            /\ ev' = [type |-> "inactiveDone"]
            /\ UNCHANGED <<kQueue, peers, conns, tickTimedOut, tickPinged>>
       ELSE LET connection == Head(kQueue)
                decision == InactiveDecision(kPeer, connection)
            IN  /\ kQueue' = Tail(kQueue)
                /\ kpc' = "inactive"
                /\ CASE decision = "remove" ->
                          LET r == removeInactiveConnection(peers, conns, kPeer, connection)
                          IN  /\ peers' = r.peers
                              /\ conns' = r.conns
                              /\ ev' = [type |-> "remove", conn |-> connection,
                                        status |-> conns[connection].Status]
                              /\ UNCHANGED <<tickTimedOut, tickPinged>>
                     [] decision = "ping" ->
                          \E err \in Errors :
                          LET r == sendPing(peers, conns, kPeer, connection, err)
                          IN  /\ peers' = r.peers
                              /\ conns' = r.conns
                              /\ tickPinged' = tickPinged \cup {connection}
                              /\ ev' = [type |-> "ping", conn |-> connection,
                                        status |-> conns[connection].Status,
                                        fatal |-> IsNetworkErrorFatal(err)]
                              /\ UNCHANGED tickTimedOut
                     [] OTHER ->
                          /\ ev' = [type |-> "quiet", conn |-> connection,
                                    status |-> conns[connection].Status]
                          /\ UNCHANGED <<peers, conns, tickTimedOut, tickPinged>>
    /\ UNCHANGED <<idVars, lockVars, workerVars, networkVars, now, ticks, peerList, kPeers, kPeer>>

NextKeepAlive ==
    \/ AddPeer
    \/ PacketIn
    \/ KeepAliveSleep
    \/ KeepAliveTick
    \/ KeepAliveNextPeer
    \/ KeepAliveActive
    \/ KeepAliveInactive

SpecKeepAlive == InitKeepAlive /\ [][NextKeepAlive]_vars

\* A caller removes a peer of the registry: PeerlistRemove(peer).  The
\* PeerInfo and its connections stay where they are, out of the registry.
RemovePeer ==
    /\ SchedulerIdle
    /\ \E peer \in PeerlistGet :
        /\ peerList' = PeerlistRemove(peerList, peers, peer)
        /\ ev' = [type |-> "removePeer", peer |-> peer]
    /\ UNCHANGED <<idVars, lockVars, workerVars, networkVars, now, ticks, peers, conns, kpc, kPeers, kPeer,
                   kQueue, tickTimedOut, tickPinged>>

\* the keep-alive scheduler beside callers that add and remove peers
NextMembership ==
    \/ NextKeepAlive
    \/ RemovePeer

SpecMembership == InitKeepAlive /\ [][NextMembership]_vars

(***************************************************************************)
(* Commands.go: the command handlers, run by the packet workers.           *)
(***************************************************************************)
Commands == {CommandAnnouncement, CommandResponse, CommandPing, CommandPong}

\* peer.send(packet): a packet with the command goes out to the peer
Send(sent, peer, command) == Append(sent, [peer |-> peer, Command |-> command])

\* cmdAnouncement for an unknown sender that replies whatever PeerlistAdd returned
AnnouncementReply_Always(sent, peer, added) ==
    Send(sent, peer, CommandResponse)

\* cmdAnouncement for an unknown sender, Commands.go:46-49: the reply
AnnouncementReply(sent, peer, added) ==
    IF added THEN Send(sent, peer, CommandResponse) ELSE sent

\* cmdAnouncement for a known sender that sends nothing
AnnouncementKnownReply_None(sent, peer) == sent

\* cmdAnouncement for a known sender, Commands.go:53-56: the reply
AnnouncementKnownReply(sent, peer) ==
    Send(sent, peer, CommandResponse)

\* cmdResponse for an unknown sender that replies as cmdAnouncement does
ResponseReply_LikeAnnouncement(sent, peer, added) ==
    IF added THEN Send(sent, peer, CommandResponse) ELSE sent

\* cmdResponse for an unknown sender, Commands.go:62-65: nothing is sent
ResponseReply(sent, peer, added) ==
    sent

\* cmdPing that replies to an unknown sender as well
PingReply_Always(sent, peer) == Send(sent, peer, CommandPong)

\* cmdPing, Commands.go:73-79: the reply
PingReply(sent, peer) ==
    IF peer = NoPeer THEN sent
    ELSE Send(sent, peer, CommandPong)

InitRegistry ==
    /\ now = Epoch
    /\ peerList = [k \in Keys |-> NoPeer]
    /\ peers = [p \in PeerIds |-> NoPeerInfo]
    /\ conns = [c \in ConnIds |-> NoConnection]
    /\ ev = NoEvent
    /\ ticks = 0
    /\ kpc = "off"
    /\ kPeers = {}
    /\ kPeer = NoPeer
    /\ kQueue = <<>>
    /\ tickTimedOut = {}
    /\ tickPinged = {}
    /\ WorkersIdle
    /\ NetworkIdle
    /\ LocksFree
    /\ IdentityIdle

\* packetWorker: a worker takes a packet off the queue, looks its sender up
\* (PeerlistLookup, under the read lock) and has the connection it came on: a
\* new one for an unknown sender; for a known one the peer's, or a new one
\* when the packet comes from another address.
WorkerReceive(w) ==
    /\ wpc[w] \in {"idle", "done"}
    /\ peerlistMutex = NoWorker
    /\ \E command \in Commands, k \in Keys, fresh \in BOOLEAN :
         LET peer == peerList[k]
             connection == IF peer = NoPeer \/ fresh THEN NewConns(1)[1]
                           ELSE peers[peer].connectionLatest
         IN  /\ (peer = NoPeer \/ fresh) => FreshConns # {}
             /\ peer = NoPeer => fresh
             /\ conns' = IF fresh
                         THEN [conns EXCEPT ![connection] =
                                 [Status |-> ConnectionActive, LastPacketIn |-> now,
                                  LastPingOut |-> 0, Expires |-> 0]]
                         ELSE [conns EXCEPT ![connection].LastPacketIn = now]
             /\ wMsg' = [wMsg EXCEPT ![w] = [Command |-> command, SenderPublicKey |-> k,
                                              connection |-> connection]]
             /\ wPeer' = [wPeer EXCEPT ![w] = peer]
    /\ wRet' = [wRet EXCEPT ![w] = NoReturn]
    /\ wSent' = [wSent EXCEPT ![w] = <<>>]
    /\ wpc' = [wpc EXCEPT ![w] = "dispatch"]
    /\ ev' = [type |-> "receive", worker |-> w]
    /\ UNCHANGED <<idVars, lockVars, now, peerList, peers, peerlistMutex, addedCount, keepAliveVars, networkVars>>

\* cmdAnouncement and cmdResponse for an unknown sender, Commands.go:43 and 62:
\* the call of PeerlistAdd gets to peerlistMutex.Lock().
HandlerAddLock(w) ==
    /\ wpc[w] = "dispatch"
    /\ wMsg[w].Command \in {CommandAnnouncement, CommandResponse}
    /\ wPeer[w] = NoPeer
    /\ peerlistMutex = NoWorker
    /\ peerlistMutex' = w
    /\ wpc' = [wpc EXCEPT ![w] = "add"]
    /\ ev' = [type |-> "lock", worker |-> w]
    /\ UNCHANGED <<idVars, lockVars, now, peerList, peers, conns, wMsg, wPeer, wRet, wSent, addedCount,
                   keepAliveVars, networkVars>>

\* PeerlistAdd under the lock, until it returns and unlocks.
HandlerAdd(w) ==
    /\ wpc[w] = "add"
    /\ peerlistMutex = w
    /\ LET k == wMsg[w].SenderPublicKey
           r == PeerlistAddLocked(peerList, peers, k, <<wMsg[w].connection>>)
       IN  /\ peerList' = r.peerList
           /\ peers' = r.peers
           /\ wRet' = [wRet EXCEPT ![w] = [peer |-> r.peer, added |-> r.added]]
           /\ addedCount' = [addedCount EXCEPT ![k] = IF r.added THEN @ + 1 ELSE @]
           /\ wSent' = IF wMsg[w].Command = CommandResponse
                       THEN [wSent EXCEPT ![w] = ResponseReply(@, r.peer, r.added)]
                       ELSE wSent
    /\ peerlistMutex' = NoWorker
    /\ wpc' = [wpc EXCEPT ![w] = IF wMsg[w].Command = CommandAnnouncement
                                  THEN "reply" ELSE "done"]
    /\ ev' = [type |-> "add", peer |-> wRet'[w].peer, added |-> wRet'[w].added]
    /\ UNCHANGED <<idVars, lockVars, now, conns, wMsg, wPeer, keepAliveVars, networkVars>>

\* cmdAnouncement for an unknown sender, Commands.go:44-51
AnnouncementNew(w) ==
    /\ wpc[w] = "reply"
    /\ wSent' = [wSent EXCEPT ![w] = AnnouncementReply(@, wRet[w].peer, wRet[w].added)]
    /\ wpc' = [wpc EXCEPT ![w] = "done"]
    /\ ev' = [type |-> "handled", worker |-> w]
    /\ UNCHANGED <<idVars, lockVars, now, peerList, peers, conns, peerlistMutex, wMsg, wPeer, wRet, addedCount,
                   keepAliveVars, networkVars>>

\* cmdAnouncement for a known sender, Commands.go:53-56
AnnouncementKnown(w) ==
    /\ wpc[w] = "dispatch"
    /\ wMsg[w].Command = CommandAnnouncement
    /\ wPeer[w] # NoPeer
    /\ wSent' = [wSent EXCEPT ![w] = AnnouncementKnownReply(@, wPeer[w])]
    /\ wpc' = [wpc EXCEPT ![w] = "done"]
    /\ ev' = [type |-> "handled", worker |-> w]
    /\ UNCHANGED <<idVars, lockVars, now, peerList, peers, conns, peerlistMutex, wMsg, wPeer, wRet, addedCount,
                   keepAliveVars, networkVars>>

\* cmdResponse for a known sender, Commands.go:68
ResponseKnown(w) ==
    /\ wpc[w] = "dispatch"
    /\ wMsg[w].Command = CommandResponse
    /\ wPeer[w] # NoPeer
    /\ wpc' = [wpc EXCEPT ![w] = "done"]
    /\ ev' = [type |-> "handled", worker |-> w]
    /\ UNCHANGED <<idVars, lockVars, now, peerList, peers, conns, peerlistMutex, wMsg, wPeer, wRet, wSent,
                   addedCount, keepAliveVars, networkVars>>

\* cmdPing, Commands.go:72-80
Ping(w) ==
    /\ wpc[w] = "dispatch"
    /\ wMsg[w].Command = CommandPing
    /\ wSent' = [wSent EXCEPT ![w] = PingReply(@, wPeer[w])]
    /\ wpc' = [wpc EXCEPT ![w] = "done"]
    /\ ev' = [type |-> "handled", worker |-> w]
    /\ UNCHANGED <<idVars, lockVars, now, peerList, peers, conns, peerlistMutex, wMsg, wPeer, wRet, addedCount,
                   keepAliveVars, networkVars>>

\* cmdPong, Commands.go:83-85
Pong(w) ==
    /\ wpc[w] = "dispatch"
    /\ wMsg[w].Command = CommandPong
    /\ wpc' = [wpc EXCEPT ![w] = "done"]
    /\ ev' = [type |-> "handled", worker |-> w]
    /\ UNCHANGED <<idVars, lockVars, now, peerList, peers, conns, peerlistMutex, wMsg, wPeer, wRet, wSent,
                   addedCount, keepAliveVars, networkVars>>

NextRegistry ==
    \/ \E w \in Workers : WorkerReceive(w)
    \/ \E w \in Workers : HandlerAddLock(w)
    \/ \E w \in Workers : HandlerAdd(w)
    \/ \E w \in Workers : AnnouncementNew(w)
    \/ \E w \in Workers : AnnouncementKnown(w)
    \/ \E w \in Workers : ResponseKnown(w)
    \/ \E w \in Workers : Ping(w)
    \/ \E w \in Workers : Pong(w)

SpecRegistry == InitRegistry /\ [][NextRegistry]_vars

(***************************************************************************)
(* Properties of the registry.                                             *)
(***************************************************************************)
\* the PeerInfo objects made for public key k
PeersOf(k) == {p \in PeerIds : peers[p] # NoPeerInfo /\ peers[p].PublicKey = k}

\* the step is the return of worker w's call of PeerlistAdd
ReturnsFromAdd(w) == wpc[w] = "add" /\ wpc'[w] # "add"

\* C1: whatever the interleaving of the calls of PeerlistAdd with one public
\* key, at most one call returns added and one PeerInfo is made for the key,
\* the one the registry holds; the call that finds no entry is the one that
\* returns added; every call that finds an entry returns the stored peer and
\* not added, and leaves the registry and the peer's lists as they are.
C1_RegistryUniqueness ==
    /\ [](\A k \in Keys :
            /\ addedCount[k] <= 1
            /\ Cardinality(PeersOf(k)) = addedCount[k]
            /\ peerList[k] # NoPeer <=> addedCount[k] = 1
            /\ peerList[k] # NoPeer => PeersOf(k) = {peerList[k]})
    /\ [][\A w \in Workers : ReturnsFromAdd(w) =>
            LET k == wMsg[w].SenderPublicKey
            IN  IF peerList[k] = NoPeer
                THEN /\ wRet'[w].added
                     /\ wRet'[w].peer = peerList'[k]
                     /\ peerList'[k] # NoPeer
                ELSE /\ ~wRet'[w].added
                     /\ wRet'[w].peer = peerList[k]
                     /\ peerList' = peerList
                     /\ peers' = peers]_vars

\* C1 witness: both workers have called PeerlistAdd with one public key;
\* one call returned added, the other the same peer and not added.
C1_Witness ==
    \E v, w \in Workers :
        /\ v # w
        /\ wpc[v] = "done" /\ wpc[w] = "done"
        /\ wMsg[v].SenderPublicKey = wMsg[w].SenderPublicKey
        /\ wRet[v].added /\ ~wRet[w].added
        /\ wRet[v].peer = wRet[w].peer
        /\ wRet[w].peer # NoPeer
        /\ wMsg[v].connection # wMsg[w].connection

\* worker w has handled an Announcement whose sender it found unknown
HandledNewAnnouncement(w) ==
    /\ wpc[w] = "done"
    /\ wMsg[w].Command = CommandAnnouncement
    /\ wPeer[w] = NoPeer

\* C6 as the claim states it: after the handler of an Announcement of an
\* unknown sender on connection C the registry holds one peer for the sender,
\* with C as its single active connection and as its latest connection, and
\* a Response went to the peer exactly if this call added it.
C6_Original ==
    \A w \in Workers : HandledNewAnnouncement(w) =>
        LET k == wMsg[w].SenderPublicKey
            p == peerList[k]
        IN  /\ p # NoPeer
            /\ PeersOf(k) = {p}
            /\ peers[p].connectionActive = <<wMsg[w].connection>>
            /\ peers[p].connectionLatest = wMsg[w].connection
            /\ wSent[w] = IF wRet[w].added
                          THEN <<[peer |-> p, Command |-> CommandResponse]>> ELSE <<>>

\* C6 as amended: after the handler the registry holds one peer for the
\* sender, with a single active connection that is its latest connection:
\* C if this call added the peer, the connection of the call that added it
\* if not; a Response went to the peer exactly if this call added it.
C6_NewPeerHandshake ==
    \A w \in Workers : HandledNewAnnouncement(w) =>
        LET k == wMsg[w].SenderPublicKey
            p == peerList[k]
        IN  /\ p # NoPeer
            /\ PeersOf(k) = {p}
            /\ wRet[w].peer = p
            /\ Len(peers[p].connectionActive) = 1
            /\ peers[p].connectionLatest = peers[p].connectionActive[1]
            /\ peers[p].connectionInactive = <<>>
            /\ wRet[w].added <=> peers[p].connectionLatest = wMsg[w].connection
            /\ wSent[w] = IF wRet[w].added
                          THEN <<[peer |-> p, Command |-> CommandResponse]>> ELSE <<>>

\* C6 witness: two workers have handled Announcements of one unknown sender;
\* the one whose call added the peer has replied, the other has not.
C6_Witness ==
    \E v, w \in Workers :
        /\ v # w
        /\ HandledNewAnnouncement(v) /\ HandledNewAnnouncement(w)
        /\ wMsg[v].SenderPublicKey = wMsg[w].SenderPublicKey
        /\ wRet[v].added /\ ~wRet[w].added
        /\ wSent[v] # <<>> /\ wSent[w] = <<>>
        /\ peers[wRet[v].peer].connectionActive = <<wMsg[v].connection>>

\* the step is the handler of worker w for a packet with the command
Handles(w, command) ==
    /\ wpc[w] = "dispatch"
    /\ wMsg[w].Command = command
    /\ wpc'[w] = "done"

\* worker w has handled a packet with the command
Handled(w, command) ==
    /\ wpc[w] = "done"
    /\ wMsg[w].Command = command

\* the connection is in a list of the peer
InListsOf(p, c) ==
    c \in Range(peers[p].connectionActive) \cup Range(peers[p].connectionInactive)

\* C11: the handler of an Announcement whose sender is a peer of the registry
\* sends one Response, to that peer, and leaves the registry and the lists
\* of every peer as they are: the connection the packet came on is not added.
C11_KnownAnnouncement ==
    [][\A w \in Workers :
          (Handles(w, CommandAnnouncement) /\ wPeer[w] # NoPeer) =>
              /\ wPeer[w] = peerList[wMsg[w].SenderPublicKey]
              /\ wSent'[w] = <<[peer |-> wPeer[w], Command |-> CommandResponse]>>
              /\ peerList' = peerList
              /\ peers' = peers
              /\ conns' = conns]_vars

\* C11 witness: an Announcement of a known peer that came on a new
\* connection is handled: one Response went out and the connection is in
\* no list of the peer.
C11_Witness ==
    \E w \in Workers :
        /\ Handled(w, CommandAnnouncement)
        /\ wPeer[w] # NoPeer
        /\ wSent[w] = <<[peer |-> wPeer[w], Command |-> CommandResponse]>>
        /\ ~InListsOf(wPeer[w], wMsg[w].connection)
        /\ peers[wPeer[w]].connectionLatest # wMsg[w].connection

\* the handler of a Response of a known sender changes nothing and sends
\* nothing
ResponseKnownIsQuiet ==
    \A w \in Workers :
        (Handles(w, CommandResponse) /\ wPeer[w] # NoPeer) =>
            /\ wSent'[w] = <<>>
            /\ peerList' = peerList
            /\ peers' = peers
            /\ conns' = conns

\* C12 as the claim states it: after the handler of a Response whose sender
\* was unknown the registry holds a peer for the sender with the connection
\* the packet came on, and nothing was sent; the handler of a Response of a
\* known sender changes nothing and sends nothing.
C12_Original ==
    /\ [](\A w \in Workers : (Handled(w, CommandResponse) /\ wPeer[w] = NoPeer) =>
            LET p == peerList[wMsg[w].SenderPublicKey]
            IN  /\ p # NoPeer
                /\ wMsg[w].connection \in Range(peers[p].connectionActive)
                /\ wSent[w] = <<>>)
    /\ [][ResponseKnownIsQuiet]_vars

\* C12 as amended: after the handler of a Response whose sender was unknown
\* the registry holds one peer for the sender and nothing was sent; the peer
\* has the connection the packet came on, as its single active and latest
\* connection, exactly if this call of PeerlistAdd added the peer; if another
\* call added it first the connection is in no list.  The handler of a
\* Response of a known sender changes nothing and sends nothing.
C12_ResponseHandling ==
    /\ [](\A w \in Workers : (Handled(w, CommandResponse) /\ wPeer[w] = NoPeer) =>
            LET k == wMsg[w].SenderPublicKey
                p == peerList[k]
            IN  /\ p # NoPeer
                /\ PeersOf(k) = {p}
                /\ wRet[w].peer = p
                /\ wSent[w] = <<>>
                /\ wRet[w].added =>
                      /\ peers[p].connectionActive = <<wMsg[w].connection>>
                      /\ peers[p].connectionLatest = wMsg[w].connection
                /\ ~wRet[w].added => ~InListsOf(p, wMsg[w].connection))
    /\ [][ResponseKnownIsQuiet]_vars

\* C12 witness: a Response of an unknown sender has registered the peer with
\* the connection it came on, and a Response of that peer, now known, is
\* handled without a reply.
C12_Witness ==
    \E v, w \in Workers :
        /\ v # w
        /\ Handled(v, CommandResponse) /\ wPeer[v] = NoPeer /\ wRet[v].added
        /\ peers[wRet[v].peer].connectionActive = <<wMsg[v].connection>>
        /\ wSent[v] = <<>>
        /\ Handled(w, CommandResponse) /\ wPeer[w] = wRet[v].peer
        /\ wSent[w] = <<>>

Ifaces == <<"eth0", "eth1">>
NoIface == ""

\* The addresses an interface can have, in the order iface.Addrs() lists them.
AddressesOf(iface) ==
    IF iface = "eth0" THEN <<"10.0.0.1", "10.0.0.2", "fe80::1">>
    ELSE <<"192.168.0.1">>

\* net.ParseIP: the IP of a text, "" (nil) if the text is none
ParseIP(ipA) ==
    IF ipA \in {"10.0.0.1", "10.0.0.2", "fe80::1", "192.168.0.1", "127.0.0.1",
                "0.0.0.0", "::"}
    THEN ipA ELSE ""

\* IsIPv4
IsIPv4(ip) == ip \in {"10.0.0.1", "10.0.0.2", "192.168.0.1", "127.0.0.1", "0.0.0.0"}

\* net.IP.IsLoopback
IsLoopback(ip) == ip = "127.0.0.1"

\* s restricted to the elements of S
RECURSIVE SelectIn(_, _)
SelectIn(s, S) ==
    IF s = <<>> THEN <<>>
    ELSE IF Head(s) \in S THEN <<Head(s)>> \o SelectIn(Tail(s), S)
    ELSE SelectIn(Tail(s), S)

\* map[string][]net.Addr
EmptyMap == [i \in {} |-> <<>>]
MapPut(m, k, v) == [x \in DOMAIN m \cup {k} |-> IF x = k THEN v ELSE m[x]]

\* FindInterfaceByIP: the first interface the system lists with the IP
FindInterfaceByIP(os, ip) ==
    LET found == SelectIn(Ifaces, {i \in DOMAIN os : ip \in Range(os[i])})
    IN  IF found = <<>> THEN NoIface ELSE Head(found)

\* net.JoinHostPort(addr.IP.String(), strconv.Itoa(addr.Port))
JoinHostPort(ip, port) == <<ip, port>>

\* The port network.AutoAssignPort binds when it is asked for port 0: one
\* that no listener has.
AutoPort(ls) == FirstAutoPort + Len(ls)

\* networkPrepareListen, given whether the system lets the port be opened.
\* The result is the new Network (or none, err # nil) and the lists.
networkPrepareListen(os, ls, n4, n6, ipA, port, bindOk) ==
    LET ip == ParseIP(ipA)
        iface == IF ipA # "0.0.0.0" /\ ipA # "::" THEN FindInterfaceByIP(os, ip) ELSE NoIface
        failed == [ok |-> FALSE, listeners |-> ls, networks4 |-> n4, networks6 |-> n6,
                   network |-> 0]
        network == [iface |-> iface, ip |-> ip,
                    port |-> IF port = 0 THEN AutoPort(ls) ELSE port,
                    terminated |-> 0]
        id == Len(ls) + 1
    IN  IF ip = "" THEN failed
        ELSE IF ipA # "0.0.0.0" /\ ipA # "::" /\ iface = NoIface THEN failed
        ELSE IF ~bindOk \/ Len(ls) >= MaxListeners THEN failed
        ELSE IF IsIPv4(ip)
             THEN [ok |-> TRUE, listeners |-> Append(ls, network),
                   networks4 |-> Append(n4, id), networks6 |-> n6, network |-> id]
             ELSE [ok |-> TRUE, listeners |-> Append(ls, network),
                   networks4 |-> n4, networks6 |-> Append(n6, id), network |-> id]

\* addListenAddress
addListenAddress(ips, ls, id) == ips \cup {JoinHostPort(ls[id].ip, ls[id].port)}

\* IsAddressSelf; NoAddr is the nil address
IsAddressSelf(addr) ==
    IF addr = NoAddr THEN FALSE ELSE JoinHostPort(addr[1], addr[2]) \in ipsListen

\* network.Terminate() on every listener of the sequence, in its order
RECURSIVE TerminateAll(_, _)
TerminateAll(ls, ids) ==
    IF ids = <<>> THEN ls
    ELSE TerminateAll([ls EXCEPT ![Head(ids)].terminated = @ + 1], Tail(ids))

\* The loop of networkChangeInterfaceRemove and networkChangeIPRemove over
\* one of the lists, Network Detection.go:184-195: range takes the slice
\* once and reads element n of its array in iteration n, while the body
\* shifts the elements of that array and sets the list anew from it.  arr
\* is the array, len the length of the list, n the index (from 0), term the
\* listeners terminated so far.
RECURSIVE RemoveLoop(_, _, _, _, _)
RemoveLoop(arr, len, n, term, matches) ==
    IF n >= Len(arr) THEN [list |-> SubSeq(arr, 1, len), terminated |-> term]
    ELSE LET network == arr[n + 1]
         IN  IF network \in matches
             THEN IF n < len - 1
                  THEN \* append(networks[:n], networks[n+1:]...), in place
                       RemoveLoop([i \in 1 .. Len(arr) |->
                                     IF i >= n + 1 /\ i <= len - 1 THEN arr[i + 1] ELSE arr[i]],
                                  len - 1, n + 1, Append(term, network), matches)
                  ELSE \* networks[:n]
                       RemoveLoop(arr, n, n + 1, Append(term, network), matches)
             ELSE RemoveLoop(arr, len, n + 1, term, matches)

\* The listeners of a list that networkChangeInterfaceRemove takes for the
\* interface's, Network Detection.go:185
OnInterface(ls, iface) == {id \in 1 .. Len(ls) : ls[id].iface # NoIface /\ ls[id].iface = iface}

\* The listeners networkChangeIPRemove takes for the address's, Network Detection.go:226
OnAddress(ls, address) == {id \in 1 .. Len(ls) : ls[id].ip = address}

\* networkChangeInterfaceRemove and networkChangeIPRemove: the loop over
\* networks6, then the loop over networks4
RemoveListeners(ls, n4, n6, matches) ==
    LET r6 == RemoveLoop(n6, Len(n6), 0, <<>>, matches)
        r4 == RemoveLoop(n4, Len(n4), 0, <<>>, matches)
    IN  [listeners |-> TerminateAll(ls, r6.terminated \o r4.terminated),
         networks4 |-> r4.list, networks6 |-> r6.list]

\* networkChangeInterfaceRemove
networkChangeInterfaceRemove(ls, n4, n6, iface) ==
    RemoveListeners(ls, n4, n6, OnInterface(ls, iface))

\* networkChangeIPRemove, for the addresses in their order
RECURSIVE networkChangeIPRemove(_, _, _, _)
networkChangeIPRemove(ls, n4, n6, addresses) ==
    IF addresses = <<>> THEN [listeners |-> ls, networks4 |-> n4, networks6 |-> n6]
    ELSE LET r == RemoveListeners(ls, n4, n6, OnAddress(ls, Head(addresses)))
         IN  networkChangeIPRemove(r.listeners, r.networks4, r.networks6, Tail(addresses))

\* initNetwork, Network Init.go:98-123: listen on each address of an
\* interface that is no loopback address, and note the address listened on.
\* fails are the addresses the system lets no port be opened on.
RECURSIVE ListenOnAddresses(_, _, _, _, _, _, _)
ListenOnAddresses(os, ls, n4, n6, ips, addresses, fails) ==
    IF addresses = <<>>
    THEN [listeners |-> ls, networks4 |-> n4, networks6 |-> n6, ipsListen |-> ips]
    ELSE LET ip == Head(addresses)
             r == networkPrepareListen(os, ls, n4, n6, ip, 0, ip \notin fails)
         IN  IF IsLoopback(ip) \/ ~r.ok
             THEN ListenOnAddresses(os, ls, n4, n6, ips, Tail(addresses), fails)
             ELSE ListenOnAddresses(os, r.listeners, r.networks4, r.networks6,
                                    addListenAddress(ips, r.listeners, r.network),
                                    Tail(addresses), fails)

\* networkStart(iface, addresses)
networkStart(os, ls, n4, n6, ips, addresses, fails) ==
    ListenOnAddresses(os, ls, n4, n6, ips, addresses, fails)

\* net.SplitHostPort and strconv.Atoi on an entry of config.Listen, Network
\* Init.go:53-62.  An entry is a text of fields between colons: a host, a
\* host and a port, or more fields than that.
SplitListen(listenA) ==
    IF Len(listenA) = 2 THEN [ok |-> TRUE, host |-> listenA[1], port |-> listenA[2]]
    ELSE IF Len(listenA) = 1 THEN [ok |-> TRUE, host |-> listenA[1], port |-> 0]
    ELSE [ok |-> FALSE, host |-> "", port |-> 0]

ListenTexts == {<<"10.0.0.1">>, <<"fe80::1", 112>>, <<"0.0.0.0", 112>>, <<"bogus">>,
                <<"10.0.0.1", 112, 0>>}
ConfigChoices == UNION {[1 .. n -> ListenTexts] : n \in 0 .. MaxListen}

\* the sequences that are s without some of its elements
RECURSIVE SubSequences(_)
SubSequences(s) ==
    IF s = <<>> THEN {<<>>}
    ELSE LET rest == SubSequences(Tail(s))
         IN  rest \cup {<<Head(s)>> \o t : t \in rest}

\* what the operating system can report
OsStates ==
    UNION {[S -> UNION {SubSequences(AddressesOf(i)) : i \in Range(Ifaces)}] :
              S \in SUBSET Range(Ifaces)}

OsState(os) == \A i \in DOMAIN os : os[i] \in SubSequences(AddressesOf(i))

\* the system's states one interface or one address away from os
OsNeighbours(os) ==
    {o \in {x \in OsStates : OsState(x)} :
        \/ \E i \in DOMAIN o \ DOMAIN os :
              /\ DOMAIN o = DOMAIN os \cup {i}
              /\ \A j \in DOMAIN os : o[j] = os[j]
        \/ \E i \in DOMAIN os \ DOMAIN o :
              /\ DOMAIN os = DOMAIN o \cup {i}
              /\ \A j \in DOMAIN o : o[j] = os[j]
        \/ /\ DOMAIN o = DOMAIN os
           /\ \E i \in DOMAIN os :
                 /\ \A j \in DOMAIN os \ {i} : o[j] = os[j]
                 /\ \/ Len(o[i]) = Len(os[i]) + 1 /\ os[i] \in SubSequences(o[i])
                    \/ Len(os[i]) = Len(o[i]) + 1 /\ o[i] \in SubSequences(os[i])}

InitNetwork ==
    /\ now = Epoch
    /\ peerList = [k \in Keys |-> NoPeer]
    /\ peers = [p \in PeerIds |-> NoPeerInfo]
    /\ conns = [c \in ConnIds |-> NoConnection]
    /\ ev = NoEvent
    /\ ticks = 0
    /\ kpc = "off"
    /\ kPeers = {}
    /\ kPeer = NoPeer
    /\ kQueue = <<>>
    /\ tickTimedOut = {}
    /\ tickPinged = {}
    /\ WorkersIdle
    /\ configListen \in ConfigChoices
    /\ osIfaces \in {x \in OsStates : OsState(x)}
    /\ listeners = <<>>
    /\ networks4 = <<>>
    /\ networks6 = <<>>
    /\ ipsListen = {}
    /\ ifacesExist = EmptyMap
    /\ ifacesNew = EmptyMap
    /\ mpc = "init"
    /\ mQueue = <<>>
    /\ mRemoved = {}
    /\ cycles = 0
    /\ mEvents = <<>>
    /\ LocksFree
    /\ IdentityIdle

notNetworkVars == <<registryVars, keepAliveVars, workerVars>>

\* initNetwork, Network Init.go:39-51 and 85-89
InitNetworkBegin ==
    /\ mpc = "init"
    /\ IF Len(configListen) > 0
       THEN /\ mQueue' = configListen
            /\ mpc' = "explicit"
       ELSE \E enumerated \in BOOLEAN :
            IF enumerated
            THEN /\ mQueue' = SelectIn(Ifaces, DOMAIN osIfaces)
                 /\ mpc' = "auto"
            ELSE /\ mQueue' = <<>>
                 /\ mpc' = "sleep"
    /\ UNCHANGED <<idVars, lockVars, configListen, osIfaces, listeners, networks4, networks6, ipsListen,
                   ifacesExist, ifacesNew, mEvents, mRemoved, cycles, notNetworkVars>>

\* initNetwork, Network Init.go:52-70: one entry of config.Listen, and the
\* return after the last
InitNetworkExplicit ==
    /\ mpc = "explicit"
    /\ IF mQueue = <<>>
       THEN /\ mpc' = "off"
            /\ UNCHANGED <<mQueue, listeners, networks4, networks6>>
       ELSE \E bindOk \in BOOLEAN :
            LET split == SplitListen(Head(mQueue))
                r == networkPrepareListen(osIfaces, listeners, networks4, networks6,
                                          split.host, split.port, bindOk)
            IN  /\ mQueue' = Tail(mQueue)
                /\ mpc' = "explicit"
                /\ IF split.ok /\ r.ok
                   THEN /\ listeners' = r.listeners
                        /\ networks4' = r.networks4
                        /\ networks6' = r.networks6
                   ELSE UNCHANGED <<listeners, networks4, networks6>>
    /\ UNCHANGED <<idVars, lockVars, configListen, osIfaces, ipsListen, ifacesExist, ifacesNew, mEvents, mRemoved,
                   cycles, notNetworkVars>>

\* initNetwork, Network Init.go:91-124: one interface, and the return after
\* the last
InitNetworkAuto ==
    /\ mpc = "auto"
    /\ IF mQueue = <<>>
       THEN /\ mpc' = "sleep"
            /\ UNCHANGED <<mQueue, listeners, networks4, networks6, ipsListen>>
       ELSE \E addrsOk \in BOOLEAN, fails \in SUBSET Range(osIfaces[Head(mQueue)]) :
            LET r == ListenOnAddresses(osIfaces, listeners, networks4, networks6, ipsListen,
                                       osIfaces[Head(mQueue)], fails)
            IN  /\ mQueue' = Tail(mQueue)
                /\ mpc' = "auto"
                /\ addrsOk \/ fails = {}
                /\ IF addrsOk
                   THEN /\ listeners' = r.listeners
                        /\ networks4' = r.networks4
                        /\ networks6' = r.networks6
                        /\ ipsListen' = r.ipsListen
                   ELSE UNCHANGED <<listeners, networks4, networks6, ipsListen>>
    /\ UNCHANGED <<idVars, lockVars, configListen, osIfaces, ifacesExist, ifacesNew, mEvents, mRemoved, cycles,
                   notNetworkVars>>

\* The network changes while the monitor sleeps: an interface or an address
\* comes or goes.
OsChange ==
    /\ mpc = "sleep"
    /\ cycles < MaxCycles
    /\ osIfaces' \in OsNeighbours(osIfaces)
    /\ UNCHANGED <<idVars, lockVars, configListen, listeners, networks4, networks6, ipsListen, ifacesExist,
                   ifacesNew, mEvents, mpc, mQueue, mRemoved, cycles, notNetworkVars>>

\* networkChangeMonitor, Network Detection.go:104-112: the sleep ends and
\* the interfaces are enumerated; with an error the cycle ends there.
MonitorEnumerate ==
    /\ mpc = "sleep"
    /\ cycles < MaxCycles
    /\ cycles' = cycles + 1
    /\ mEvents' = <<>>
    /\ \E enumerated \in BOOLEAN :
         IF enumerated
         THEN /\ mQueue' = SelectIn(Ifaces, DOMAIN osIfaces)
              /\ ifacesNew' = EmptyMap
              /\ mpc' = "ifaces"
         ELSE UNCHANGED <<mQueue, ifacesNew, mpc>>
    /\ UNCHANGED <<idVars, lockVars, configListen, osIfaces, listeners, networks4, networks6, ipsListen,
                   ifacesExist, mRemoved, notNetworkVars>>

\* the elements of s that are not in t, by the equality of their texts
NotIn_All(s, t) == s
NotIn(s, t) == SelectIn(s, Range(s) \ Range(t))

\* a call of networkChangeInterfaceNew, networkChangeInterfaceRemove,
\* networkChangeIPNew or networkChangeIPRemove, Network Detection.go:171-250
Call(type, iface, addresses) == [type |-> type, iface |-> iface, addresses |-> addresses]

\* one call for each address, in their order
IPCalls(type, iface, addresses) ==
    [i \in 1 .. Len(addresses) |-> Call(type, iface, <<addresses[i]>>)]

\* networkChangeMonitor, Network Detection.go:114-157: one interface of the
\* enumeration; Network Detection.go:160 after the last.
MonitorInterface ==
    /\ mpc = "ifaces"
    /\ IF mQueue = <<>>
       THEN /\ mpc' = "removed"
            /\ mRemoved' = DOMAIN ifacesExist
            /\ UNCHANGED <<mQueue, ifacesNew, mEvents, listeners, networks4, networks6,
                           ipsListen>>
       ELSE \E addrsOk \in BOOLEAN, fails \in SUBSET Range(osIfaces[Head(mQueue)]) :
            LET iface == Head(mQueue)
                addressesNew == osIfaces[iface]
                \* networkChangeInterfaceNew
                new == networkStart(osIfaces, listeners, networks4, networks6, ipsListen,
                                    addressesNew, fails)
                addressesExist == ifacesExist[iface]
                \* networkChangeIPNew for each address that was not there
                added == networkStart(osIfaces, listeners, networks4, networks6, ipsListen,
                                      NotIn(addressesNew, addressesExist), fails)
                \* networkChangeIPRemove for each address that is not there any more
                changed == networkChangeIPRemove(added.listeners, added.networks4,
                                                 added.networks6,
                                                 NotIn(addressesExist, addressesNew))
            IN  /\ mQueue' = Tail(mQueue)
                /\ mpc' = "ifaces"
                /\ addrsOk \/ fails = {}
                /\ UNCHANGED mRemoved
                /\ IF ~addrsOk
                   THEN UNCHANGED <<ifacesNew, mEvents, listeners, networks4, networks6,
                                    ipsListen>>
                   ELSE /\ ifacesNew' = MapPut(ifacesNew, iface, addressesNew)
                        /\ IF iface \notin DOMAIN ifacesExist
                           THEN /\ mEvents' = Append(mEvents,
                                                     Call("networkChangeInterfaceNew", iface,
                                                          addressesNew))
                                /\ listeners' = new.listeners
                                /\ networks4' = new.networks4
                                /\ networks6' = new.networks6
                                /\ ipsListen' = new.ipsListen
                           ELSE /\ mEvents' =
                                       mEvents
                                       \o IPCalls("networkChangeIPNew", iface,
                                                  NotIn(addressesNew, addressesExist))
                                       \o IPCalls("networkChangeIPRemove", iface,
                                                  NotIn(addressesExist, addressesNew))
                                /\ listeners' = changed.listeners
                                /\ networks4' = changed.networks4
                                /\ networks6' = changed.networks6
                                /\ ipsListen' = added.ipsListen
    /\ UNCHANGED <<idVars, lockVars, configListen, osIfaces, ifacesExist, cycles, notNetworkVars>>

\* networkChangeMonitor, Network Detection.go:160-166: one interface of the
\* old snapshot, in the order the map gives them; the new snapshot takes the
\* place of the old after the last.
MonitorRemoved ==
    /\ mpc = "removed"
    /\ IF mRemoved = {}
       THEN /\ ifacesExist' = ifacesNew
            /\ mpc' = "sleep"
            /\ UNCHANGED <<mRemoved, mEvents, listeners, networks4, networks6>>
       ELSE \E ifaceExist \in mRemoved :
            LET r == networkChangeInterfaceRemove(listeners, networks4, networks6, ifaceExist)
            IN  /\ mRemoved' = mRemoved \ {ifaceExist}
                /\ mpc' = "removed"
                /\ UNCHANGED ifacesExist
                /\ IF ifaceExist \notin DOMAIN ifacesNew
                   THEN /\ mEvents' = Append(mEvents,
                                             Call("networkChangeInterfaceRemove", ifaceExist,
                                                  ifacesExist[ifaceExist]))
                        /\ listeners' = r.listeners
                        /\ networks4' = r.networks4
                        /\ networks6' = r.networks6
                   ELSE UNCHANGED <<mEvents, listeners, networks4, networks6>>
    /\ UNCHANGED <<idVars, lockVars, configListen, osIfaces, ipsListen, ifacesNew, mQueue, cycles,
                   notNetworkVars>>

NextNetwork ==
    \/ InitNetworkBegin
    \/ InitNetworkExplicit
    \/ InitNetworkAuto
    \/ OsChange
    \/ MonitorEnumerate
    \/ MonitorInterface
    \/ MonitorRemoved

SpecNetwork == InitNetwork /\ [][NextNetwork]_vars

(***************************************************************************)
(* The listener lists and networksMutex: the calls that change the lists,  *)
(* step by step, beside a goroutine that reads the lists under the lock.   *)
(***************************************************************************)
\* initNetwork, Network Init.go:91-124, with no error: the listeners of
\* every address of the interfaces, in the order of the enumeration
RECURSIVE ListenOnInterfaces(_, _, _)
ListenOnInterfaces(os, ifaces, r) ==
    IF ifaces = <<>> THEN r
    ELSE ListenOnInterfaces(os, Tail(ifaces),
             ListenOnAddresses(os, r.listeners, r.networks4, r.networks6, r.ipsListen,
                               os[Head(ifaces)], {}))

\* the calls of the monitor that take listeners out of the lists
RemovalCalls ==
    {<<"interface", iface>> : iface \in DOMAIN ifacesExist}
        \cup {<<"address", address>> :
                  address \in UNION {Range(ifacesExist[iface]) : iface \in DOMAIN ifacesExist}}

InitListenerLock ==
    /\ now = Epoch
    /\ peerList = [k \in Keys |-> NoPeer]
    /\ peers = [p \in PeerIds |-> NoPeerInfo]
    /\ conns = [c \in ConnIds |-> NoConnection]
    /\ ev = NoEvent
    /\ ticks = 0
    /\ kpc = "off"
    /\ kPeers = {}
    /\ kPeer = NoPeer
    /\ kQueue = <<>>
    /\ tickTimedOut = {}
    /\ tickPinged = {}
    /\ WorkersIdle
    /\ configListen = <<>>
    /\ osIfaces \in {x \in OsStates : OsState(x)}
    /\ LET r == ListenOnInterfaces(osIfaces, SelectIn(Ifaces, DOMAIN osIfaces),
                                   [listeners |-> <<>>, networks4 |-> <<>>,
                                    networks6 |-> <<>>, ipsListen |-> {}])
       IN  /\ listeners = r.listeners
           /\ networks4 = r.networks4
           /\ networks6 = r.networks6
           /\ ipsListen = r.ipsListen
    /\ ifacesExist = osIfaces
    /\ ifacesNew = EmptyMap
    /\ mpc = "sleep"
    /\ mQueue = <<>>
    /\ mRemoved = {}
    /\ cycles = 0
    /\ mEvents = <<>>
    /\ LocksFree
    /\ IdentityIdle

\* networkChangeInterfaceRemove and networkChangeIPRemove, Network
\* Detection.go:179 and 220: networksMutex.RLock()
RemoveRLock ==
    /\ mpc = "sleep"
    /\ cycles < MaxCycles
    /\ CanRLock(networksMutex)
    /\ \E call \in RemovalCalls : mQueue' = <<call>>
    /\ networksMutex' = RLock(networksMutex, "monitor")
    /\ mpc' = "rlocked"
    /\ cycles' = cycles + 1
    /\ UNCHANGED <<idVars, configListen, osIfaces, listeners, networks4, networks6, ipsListen,
                   ifacesExist, ifacesNew, mEvents, mRemoved, peerMutex, notNetworkVars>>

\* networkChangeInterfaceRemove and networkChangeIPRemove, Network
\* Detection.go:184-208 and 225-249: the two loops
RemoveLoops ==
    /\ mpc = "rlocked"
    /\ LET call == Head(mQueue)
           r == IF call[1] = "interface"
                THEN networkChangeInterfaceRemove(listeners, networks4, networks6, call[2])
                ELSE networkChangeIPRemove(listeners, networks4, networks6, <<call[2]>>)
       IN  /\ listeners' = r.listeners
           /\ networks4' = r.networks4
           /\ networks6' = r.networks6
    /\ mpc' = "runlock"
    /\ UNCHANGED <<idVars, configListen, osIfaces, ipsListen, ifacesExist, ifacesNew, mEvents, mQueue,
                   mRemoved, cycles, lockVars, notNetworkVars>>

\* the deferred networksMutex.RUnlock(), Network Detection.go:180 and 221
RemoveRUnlock ==
    /\ mpc = "runlock"
    /\ networksMutex' = RUnlock(networksMutex, "monitor")
    /\ mpc' = "sleep"
    /\ mQueue' = <<>>
    /\ UNCHANGED <<idVars, configListen, osIfaces, listeners, networks4, networks6, ipsListen,
                   ifacesExist, ifacesNew, mEvents, mRemoved, cycles, peerMutex, notNetworkVars>>

\* networkChangeIPNew, Network Detection.go:212-216: networkStart for one
\* address, whose networkPrepareListen (Network Init.go:150-156) appends to
\* a list; no call of networksMutex is on the way.
ListenNewAddress ==
    /\ mpc = "sleep"
    /\ \E iface \in DOMAIN osIfaces : \E i \in 1 .. Len(osIfaces[iface]) :
         LET r == networkStart(osIfaces, listeners, networks4, networks6, ipsListen,
                               <<osIfaces[iface][i]>>, {})
         IN  /\ r.listeners # listeners
             /\ listeners' = r.listeners
             /\ networks4' = r.networks4
             /\ networks6' = r.networks6
             /\ ipsListen' = r.ipsListen
    /\ UNCHANGED <<idVars, configListen, osIfaces, ifacesExist, ifacesNew, mEvents, mpc, mQueue, mRemoved,
                   cycles, lockVars, notNetworkVars>>

\* A goroutine that sends on every listener takes networksMutex for reading
\* while it goes through the lists.
SenderRLock ==
    /\ "sender" \notin networksMutex.readers
    /\ CanRLock(networksMutex)
    /\ networksMutex' = RLock(networksMutex, "sender")
    /\ UNCHANGED <<idVars, networkVars, peerMutex, notNetworkVars>>

SenderRUnlock ==
    /\ "sender" \in networksMutex.readers
    /\ networksMutex' = RUnlock(networksMutex, "sender")
    /\ UNCHANGED <<idVars, networkVars, peerMutex, notNetworkVars>>

NextListenerLock ==
    \/ RemoveRLock
    \/ RemoveLoops
    \/ RemoveRUnlock
    \/ ListenNewAddress
    \/ SenderRLock
    \/ SenderRUnlock

SpecListenerLock == InitListenerLock /\ [][NextListenerLock]_vars

(***************************************************************************)
(* Properties of the network.                                              *)
(***************************************************************************)
\* the listeners of the two lists
Listening == Range(networks4) \cup Range(networks6)

\* the step is networkChangeInterfaceRemove for interface iface
RemovesInterface(iface) ==
    /\ mpc = "removed"
    /\ iface \in mRemoved
    /\ iface \notin mRemoved'
    /\ iface \notin DOMAIN ifacesNew

\* C7 as the claim states it: when an interface of the old snapshot is not
\* in the new one, every listener of the two lists on that interface is
\* terminated once and is in neither list afterwards, and every other
\* listener stays in its list, in its place, and is not terminated.
C7_InterfaceRemovalCascade ==
    [][\A iface \in Range(Ifaces) : RemovesInterface(iface) =>
          LET gone == OnInterface(listeners, iface) \cap Listening
              kept == {id \in 1 .. Len(listeners) : id \notin gone}
          IN  /\ \A id \in gone : listeners'[id].terminated = listeners[id].terminated + 1
              /\ \A id \in kept : listeners'[id].terminated = listeners[id].terminated
              /\ networks4' = SelectIn(networks4, kept)
              /\ networks6' = SelectIn(networks6, kept)]_vars

\* initNetwork has returned and the monitor has not yet run
InitNetworkDone == mpc = "off" \/ (mpc = "sleep" /\ cycles = 0)

\* the addresses a packet may come from
SenderAddresses ==
    {<<ip, port>> : ip \in {"10.0.0.1", "10.0.0.2", "fe80::1", "192.168.0.1", "0.0.0.0"},
                    port \in {112} \cup (FirstAutoPort .. FirstAutoPort + MaxListeners)}

\* C8 as the claim states it: after initNetwork IsAddressSelf is true of the
\* address of every listener that was opened, in either mode, and of no
\* other address, the nil address among them.
C8_SelfSendRegistration ==
    InitNetworkDone =>
        /\ \A id \in Listening : IsAddressSelf(<<listeners[id].ip, listeners[id].port>>)
        /\ \A addr \in SenderAddresses :
              IsAddressSelf(addr) =>
                  \E id \in Listening : addr = <<listeners[id].ip, listeners[id].port>>
        /\ ~IsAddressSelf(NoAddr)

\* the step changes a listener list
MutatesLists == networks4' # networks4 \/ networks6' # networks6

\* C16 as the claim states it: every step that changes a listener list is
\* made by a goroutine that holds networksMutex for writing, no other
\* goroutine holding it.
C16_ListenerListLocking ==
    [][MutatesLists =>
          /\ networksMutex.writer = "monitor"
          /\ networksMutex.readers = {}]_vars

\* the interfaces the cycle under way has visited
MonitorVisited ==
    IF mpc = "ifaces" THEN DOMAIN osIfaces \ Range(mQueue)
    ELSE IF mpc = "removed" THEN DOMAIN osIfaces
    ELSE {}

\* the interfaces whose iface.Addrs() failed in the cycle under way: the
\* system lists them, the cycle has visited them, the new snapshot lacks them
AddrsFailed == MonitorVisited \ DOMAIN ifacesNew

\* the step is a cycle that ends at the error of net.Interfaces()
EnumerationFails == mpc = "sleep" /\ cycles' = cycles + 1 /\ mpc' = "sleep"

\* the step is the end of a cycle: the new snapshot is stored
StoresSnapshot == mpc = "removed" /\ mpc' = "sleep"

\* C14 as the claim states it: a cycle in which the enumeration of the
\* interfaces fails changes no listener, no list and no snapshot; once the
\* enumeration of an interface's addresses has failed the cycle terminates
\* and opens no listener, the interface is not taken for removed, and the
\* snapshot stored at the end has for it what the old one had.
C14_EnumerationErrorsSkip ==
    [][/\ EnumerationFails =>
            /\ listeners' = listeners
            /\ networks4' = networks4
            /\ networks6' = networks6
            /\ ifacesExist' = ifacesExist
       /\ (AddrsFailed # {} /\ mpc \in {"ifaces", "removed"}) =>
            /\ listeners' = listeners
            /\ networks4' = networks4
            /\ networks6' = networks6
       /\ \A iface \in AddrsFailed :
            /\ ~RemovesInterface(iface)
            /\ StoresSnapshot =>
                  /\ iface \in DOMAIN ifacesExist <=> iface \in DOMAIN ifacesExist'
                  /\ iface \in DOMAIN ifacesExist => ifacesExist'[iface] = ifacesExist[iface]]_vars

\* how often the call is among the calls made
Raised(events, type, iface, addresses) ==
    Cardinality({i \in 1 .. Len(events) : events[i] = Call(type, iface, addresses)})

\* the calls of the type for the interface among the calls made
RaisedFor(events, type, iface) ==
    {i \in 1 .. Len(events) : events[i].type = type /\ events[i].iface = iface}

\* every address an interface can have
AllAddresses == UNION {Range(AddressesOf(iface)) : iface \in Range(Ifaces)}

\* C20: in a cycle of the monitor, for an interface the cycle has put in the
\* new snapshot: if the old snapshot has it, networkChangeIPNew is called
\* once for each address of the new entry that is not in the old, for no
\* other, networkChangeIPRemove once for each address of the old entry that
\* is not in the new, for no other, and networkChangeInterfaceNew is not
\* called for it; if the old snapshot lacks it, networkChangeInterfaceNew is
\* called once for it, with its addresses, and no call is made for one of
\* its addresses.  The end of the cycle stores the new snapshot as the old,
\* and a cycle whose new snapshot is the old one has made no call.
C20_SnapshotDiff ==
    [][/\ mpc' \in {"ifaces", "removed"} =>
            \A iface \in DOMAIN ifacesNew' :
                IF iface \in DOMAIN ifacesExist'
                THEN /\ \A a \in AllAddresses :
                          /\ Raised(mEvents', "networkChangeIPNew", iface, <<a>>) =
                                 IF a \in Range(ifacesNew'[iface]) \ Range(ifacesExist'[iface])
                                 THEN 1 ELSE 0
                          /\ Raised(mEvents', "networkChangeIPRemove", iface, <<a>>) =
                                 IF a \in Range(ifacesExist'[iface]) \ Range(ifacesNew'[iface])
                                 THEN 1 ELSE 0
                     /\ RaisedFor(mEvents', "networkChangeInterfaceNew", iface) = {}
                     /\ RaisedFor(mEvents', "networkChangeInterfaceRemove", iface) = {}
                ELSE /\ Raised(mEvents', "networkChangeInterfaceNew", iface, ifacesNew'[iface]) = 1
                     /\ Cardinality(RaisedFor(mEvents', "networkChangeInterfaceNew", iface)) = 1
                     /\ RaisedFor(mEvents', "networkChangeIPNew", iface) = {}
                     /\ RaisedFor(mEvents', "networkChangeIPRemove", iface) = {}
       /\ StoresSnapshot =>
            /\ ifacesExist' = ifacesNew
            /\ ifacesNew = ifacesExist => mEvents = <<>>]_vars

\* The second cycle is at its end; an interface of both snapshots has got an
\* address and lost another, and an interface has come that the old
\* snapshot lacks.
C20_Witness ==
    /\ mpc = "removed"
    /\ mRemoved = {}
    /\ cycles = 2
    /\ \E iface \in DOMAIN ifacesNew \cap DOMAIN ifacesExist :
          /\ RaisedFor(mEvents, "networkChangeIPNew", iface) # {}
          /\ RaisedFor(mEvents, "networkChangeIPRemove", iface) # {}
    /\ \E iface \in DOMAIN ifacesNew \ DOMAIN ifacesExist :
          RaisedFor(mEvents, "networkChangeInterfaceNew", iface) # {}

(***************************************************************************)
(* Properties of the keep-alive scheduler.                                 *)
(***************************************************************************)
\* how often x occurs in s
Count(s, x) == Cardinality({i \in 1 .. Len(s) : s[i] = x})

\* how often connection c occurs in the two lists of peer p
Occurrences(p, c) ==
    Count(peers[p].connectionActive, c) + Count(peers[p].connectionInactive, c)

LiveStatus == {ConnectionActive, ConnectionRedundant, ConnectionInactive}

\* C2: every connection of a peer of the registry is in exactly one of the
\* peer's two lists, once: a connection that was registered and is not
\* purged is in one list of one peer (never neither), and no connection is in
\* both lists or twice in one (never both).
C2_ConnectionInvariant ==
    /\ \A c \in ConnIds : conns[c].Status \in LiveStatus =>
          \E p \in PeerlistGet :
              /\ Occurrences(p, c) = 1
              /\ \A q \in PeerlistGet \ {p} : Occurrences(q, c) = 0
    /\ \A p \in PeerlistGet :
          \A c \in Range(peers[p].connectionActive) \cup Range(peers[p].connectionInactive) :
              Occurrences(p, c) = 1

\* C2 witness: a ping on an active connection hit a fatal send error and the
\* connection is in the inactive list, beside one that is still active.
C2_Witness ==
    /\ ev.type = "ping" /\ ev.fatal /\ ev.status = ConnectionActive
    /\ \E p \in PeerlistGet :
          /\ ev.conn \in Range(peers[p].connectionInactive)
          /\ peers[p].connectionActive # <<>>

\* the step purges connection c of peer p
Purges(p, c) ==
    /\ c \in Range(peers[p].connectionInactive)
    /\ c \notin Range(peers'[p].connectionInactive)
    /\ c \notin Range(peers'[p].connectionActive)

\* C3 as the claim states it: a connection is purged only if its expiry has
\* passed and the peer has an active connection or more than 2 inactive
\* connections beside the one that is purged.
C3_Original ==
    [][\A p \in PeerIds, c \in ConnIds :
          Purges(p, c) =>
              /\ conns[c].Expires < now
              /\ \/ Len(peers[p].connectionActive) >= 1
                 \/ Len(peers[p].connectionInactive) - 1 > 2]_vars

\* C3 as amended: a connection is purged only if its expiry has passed and
\* the peer has an active connection or at least 2 inactive connections
\* beside the one that is purged (more than 2 counting it).
C3_EvictionGuard ==
    [][\A p \in PeerIds, c \in ConnIds :
          Purges(p, c) =>
              /\ conns[c].Expires < now
              /\ \/ Len(peers[p].connectionActive) >= 1
                 \/ Len(peers[p].connectionInactive) - 1 >= 2]_vars

\* C3 witness: a connection was purged from a peer without active
\* connections; exactly 2 inactive connections are left.
C3_Witness ==
    /\ ev.type = "remove"
    /\ kPeer # NoPeer
    /\ peers[kPeer].connectionActive = <<>>
    /\ Len(peers[kPeer].connectionInactive) = 2
    /\ conns[ev.conn].Status = ConnectionRemoved

\* the connections of peer p in the heap of peers ps, of both lists
ConnectionsOf(ps, p) == Len(ps[p].connectionActive) + Len(ps[p].connectionInactive)

\* C21: every peer of the registry has at least one connection, in one of
\* its two lists; PeerlistAdd with no connection leaves the registry as it
\* is and returns (nil, false), whatever the key; and a purge by the
\* keep-alive scheduler leaves its peer a connection.
C21_NoPeerWithoutPath ==
    [][/\ \A p \in PeerlistGet' : ConnectionsOf(peers', p) >= 1
       /\ \A k \in Keys :
            PeerlistAdd(peerList, peers, k, <<>>) =
                [peerList |-> peerList, peers |-> peers, peer |-> NoPeer, added |-> FALSE]
       /\ (ev'.type = "add" /\ ev'.peer = NoPeer) =>
            /\ ~ev'.added
            /\ peerList' = peerList
            /\ peers' = peers
            /\ conns' = conns
       /\ \A p \in PeerlistGet, c \in ConnIds :
            Purges(p, c) => ConnectionsOf(peers', p) >= 1]_vars

\* C21 witness: the scheduler has visited the one connection a peer has,
\* inactive and past its expiry, and has not purged it.
C21_Witness ==
    /\ kpc = "inactive"
    /\ ev.type \in {"ping", "quiet"}
    /\ kPeer \in PeerlistGet
    /\ peers[kPeer].connectionActive = <<>>
    /\ peers[kPeer].connectionInactive = <<ev.conn>>
    /\ conns[ev.conn].Expires < now

\* C4 as the claim states it: a connection that the tick under way has
\* moved to the inactive list for its timeout is in the inactive list and no
\* ping is sent on it in that tick.
C4_NoPingInTimeoutTick ==
    \A c \in tickTimedOut :
        /\ c \notin tickPinged
        /\ \E p \in PeerIds : c \in Range(peers[p].connectionInactive)

\* C15: the registry changes only in a call of PeerlistAdd that adds a peer
\* for a key that had none, and in a call of PeerlistRemove, which takes out
\* the peer it is called with and no other; no step of a keep-alive tick
\* changes it, whatever becomes of the peer's connections.
C15_NoAutomaticRemoval ==
    [][/\ \A k \in Keys :
            peerList'[k] # peerList[k] =>
                \/ /\ ev'.type = "add" /\ ev'.added
                   /\ peerList[k] = NoPeer
                   /\ peerList'[k] = ev'.peer
                   /\ \A j \in Keys \ {k} : peerList'[j] = peerList[j]
                \/ /\ ev'.type = "removePeer"
                   /\ peerList[k] = ev'.peer
                   /\ peerList'[k] = NoPeer
                   /\ \A j \in Keys \ {k} : peerList'[j] = peerList[j]
       /\ ~SchedulerIdle => peerList' = peerList
       /\ kpc = "woken" /\ kpc' = "peers" => peerList' = peerList]_vars

\* C15 witness: the scheduler has gone through the connections of a peer
\* that has no active connection left, and the peer is in the registry.
C15_Witness ==
    /\ kpc = "peers"
    /\ ev.type = "inactiveDone"
    /\ kPeer \in PeerlistGet
    /\ peers[kPeer].connectionActive = <<>>
    /\ peers[kPeer].connectionInactive # <<>>
    /\ tickTimedOut # {}

\* the step is the scheduler's visit of connection c in the active list of p
VisitsActive(p, c) ==
    /\ kpc = "active"
    /\ kQueue # <<>>
    /\ c = Head(kQueue)
    /\ p = kPeer

\* C5: a Redundant connection of the active list is invalidated by its visit
\* exactly if it has been quiet for more than 88 s, pinged exactly if not so
\* and both its last packet and its last ping are more than 40 s old, and it
\* stays Redundant in the active list when it has been quiet for 88 s or
\* less, 25 s say, and no ping fails fatally.
C5_RedundantTolerance ==
    [][\A p \in PeerIds, c \in ConnIds :
          (VisitsActive(p, c) /\ conns[c].Status = ConnectionRedundant) =>
              /\ (ev'.type = "invalidate") <=> (now - conns[c].LastPacketIn > 88)
              /\ (ev'.type = "ping") <=>
                     /\ now - conns[c].LastPacketIn <= 88
                     /\ now - conns[c].LastPacketIn > 40
                     /\ now - conns[c].LastPingOut > 40
              /\ (now - conns[c].LastPacketIn <= 88 /\ ~(ev'.type = "ping" /\ ev'.fatal)) =>
                     /\ c \in Range(peers'[p].connectionActive)
                     /\ c \notin Range(peers'[p].connectionInactive)
                     /\ conns'[c].Status = ConnectionRedundant
              /\ (now - conns[c].LastPacketIn > 22 /\ now - conns[c].LastPacketIn <= 40) =>
                     /\ ev'.type = "quiet"
                     /\ c \in Range(peers'[p].connectionActive)]_vars

\* C5 witness: the scheduler has visited a Redundant connection that has been
\* quiet for more than 22 s and left it Redundant in the active list.
C5_Witness ==
    /\ ev.type = "quiet"
    /\ ev.status = ConnectionRedundant
    /\ now - conns[ev.conn].LastPacketIn > 22
    /\ conns[ev.conn].Status = ConnectionRedundant
    /\ kPeer # NoPeer
    /\ ev.conn \in Range(peers[kPeer].connectionActive)

\* C18: at its visit in a tick a connection of the active list is pinged
\* exactly if the visit does not invalidate it and its last packet and its
\* last ping are both older than the ping threshold, 10 s for Active and 40 s
\* for Redundant; a ping without a fatal error leaves its status and the
\* lists as they are; no connection is pinged twice in a tick.
C18_ActivePingCadence ==
    [][/\ \A p \in PeerIds, c \in ConnIds :
            VisitsActive(p, c) =>
                LET threshold == IF conns[c].Status = ConnectionRedundant THEN 40 ELSE 10
                    invalidated == ev'.type = "invalidate"
                IN  /\ (ev'.type = "ping") <=>
                           /\ ~invalidated
                           /\ conns[c].LastPacketIn < now - threshold
                           /\ conns[c].LastPingOut < now - threshold
                    /\ (ev'.type = "ping" /\ ~ev'.fatal) =>
                           /\ peers' = peers
                           /\ conns'[c].Status = conns[c].Status
                           /\ c \in Range(peers'[p].connectionActive)
       /\ (kpc \in {"active", "inactive"} /\ kQueue # <<>> /\ ev'.type = "ping") =>
            /\ Head(kQueue) \notin tickPinged
            /\ tickPinged' = tickPinged \cup {Head(kQueue)}]_vars

\* C18 witness: an Active connection that has been quiet for more than 10 s
\* and not long enough to be invalidated is pinged in the active pass and
\* is Active in the active list.
C18_Witness ==
    /\ kpc = "active"
    /\ ev.type = "ping" /\ ~ev.fatal /\ ev.status = ConnectionActive
    /\ conns[ev.conn].Status = ConnectionActive
    /\ conns[ev.conn].LastPingOut = now
    /\ now - conns[ev.conn].LastPacketIn > 10
    /\ now - conns[ev.conn].LastPacketIn <= 22
    /\ ev.conn \in Range(peers[kPeer].connectionActive)
    /\ tickPinged = {ev.conn}

\* the step is the scheduler's visit of connection c in the inactive list of p
VisitsInactive(p, c) ==
    /\ kpc = "inactive"
    /\ kQueue # <<>>
    /\ c = Head(kQueue)
    /\ p = kPeer

\* C19: at its visit in a tick a connection of the inactive list that the
\* visit does not purge is pinged exactly if its last ping is more than 10 s
\* old; the ping leaves it Inactive in the inactive list; a connection that
\* is purged was not pinged in the tick and is not pinged after.
C19_InactiveProbing ==
    [][/\ \A p \in PeerIds, c \in ConnIds :
            VisitsInactive(p, c) =>
                LET purged == ev'.type = "remove"
                IN  /\ ~purged => ((ev'.type = "ping") <=> (conns[c].LastPingOut < now - 10))
                    /\ ev'.type = "ping" =>
                           /\ peers' = peers
                           /\ c \in Range(peers'[p].connectionInactive)
                           /\ conns'[c].Status = ConnectionInactive
                           /\ conns'[c].LastPingOut = now
                    /\ purged =>
                           /\ c \notin tickPinged
                           /\ tickPinged' = tickPinged
                           /\ conns'[c].LastPingOut = conns[c].LastPingOut
       /\ (kpc \in {"active", "inactive"} /\ kQueue # <<>>) =>
            conns[Head(kQueue)].Status # ConnectionRemoved]_vars

\* C19 witness: a connection that was inactive when the tick began is
\* pinged in the inactive pass and is Inactive in the inactive list.
C19_Witness ==
    /\ kpc = "inactive"
    /\ ev.type = "ping" /\ ev.status = ConnectionInactive
    /\ ev.conn \notin tickTimedOut
    /\ conns[ev.conn].Status = ConnectionInactive
    /\ conns[ev.conn].LastPingOut = now
    /\ ev.conn \in Range(peers[kPeer].connectionInactive)

\* C10: a call of sendPing sets LastPingOut to the time of the call whatever
\* the send reported; with a fatal error on an Active or Redundant
\* connection the connection moves to the inactive list in that call, however
\* recent its last packet; in every other case the lists are unchanged.
C10_SendPingEffect ==
    [][(ev'.type = "ping" /\ kQueue # <<>>) =>
          LET c == Head(kQueue)
              moves == ev'.fatal /\ conns[c].Status \in {ConnectionActive, ConnectionRedundant}
          IN  /\ ev'.conn = c
              /\ conns'[c].LastPingOut = now
              /\ conns'[c].LastPacketIn = conns[c].LastPacketIn
              /\ moves =>
                    /\ c \notin Range(peers'[kPeer].connectionActive)
                    /\ c \in Range(peers'[kPeer].connectionInactive)
                    /\ conns'[c].Status = ConnectionInactive
              /\ ~moves =>
                    /\ peers' = peers
                    /\ conns'[c].Status = conns[c].Status]_vars

\* C10 witness: a ping on a Redundant connection hit a fatal send error and
\* the connection is Inactive in the inactive list, its LastPingOut now.
C10_Witness ==
    /\ ev.type = "ping" /\ ev.fatal /\ ev.status = ConnectionRedundant
    /\ conns[ev.conn].Status = ConnectionInactive
    /\ conns[ev.conn].LastPingOut = now
    /\ kPeer # NoPeer
    /\ ev.conn \in Range(peers[kPeer].connectionInactive)

(***************************************************************************)
(* Commands.go: sendPing under every error peer.sendConnection can return. *)
(* A peer holds up to MaxConns connections, each in the list of its status;*)
(* sendPing is called once on each.                                        *)
(***************************************************************************)
\* the times a connection's last packet can have come in
PacketTimes == {Epoch - pingTime - 1, Epoch}

InitSendError ==
    /\ now = Epoch
    /\ \E k \in Keys, n \in 1 .. MaxConns - 1 :
       \E status \in [1 .. n -> LiveStatus], last \in PacketTimes :
        /\ peerList = [j \in Keys |-> IF j = k THEN 1 ELSE NoPeer]
        /\ peers = [p \in PeerIds |->
                      IF p = 1
                      THEN [PublicKey |-> k,
                            connectionActive |->
                                SelectSeq([i \in 1 .. n |-> i],
                                          LAMBDA c : status[c] # ConnectionInactive),
                            connectionInactive |->
                                SelectSeq([i \in 1 .. n |-> i],
                                          LAMBDA c : status[c] = ConnectionInactive),
                            connectionLatest |-> 1]
                      ELSE NoPeerInfo]
        /\ conns = [c \in ConnIds |->
                      IF c <= n
                      THEN [Status |-> status[c], LastPacketIn |-> last, LastPingOut |-> 0,
                            Expires |-> IF status[c] = ConnectionInactive
                                        THEN now + connectionRemove ELSE 0]
                      ELSE NoConnection]
    /\ ev = NoEvent
    /\ ticks = 0
    /\ kpc = "sleep"
    /\ kPeers = {}
    /\ kPeer = NoPeer
    /\ kQueue = <<>>
    /\ tickTimedOut = {}
    /\ tickPinged = {}
    /\ WorkersIdle
    /\ NetworkIdle
    /\ LocksFree
    /\ IdentityIdle

\* peer.sendPing(connection), Commands.go:150-157, on a connection that has
\* not been pinged; peer.sendConnection returns any error or none.
SendPingCall ==
    /\ \E p \in PeerlistGet :
       \E c \in Range(peers[p].connectionActive) \cup Range(peers[p].connectionInactive) :
       \E err \in Errors :
        LET r == sendPing(peers, conns, p, c, err)
        IN  /\ conns[c].LastPingOut # now
            /\ peers' = r.peers
            /\ conns' = r.conns
            /\ ev' = [type |-> "sendPing", peer |-> p, conn |-> c,
                      status |-> conns[c].Status, err |-> err,
                      fatal |-> IsNetworkErrorFatal(err)]
    /\ UNCHANGED <<idVars, lockVars, now, peerList, keepAliveVars, workerVars, networkVars>>

NextSendError == SendPingCall

SpecSendError == InitSendError /\ [][NextSendError]_vars

\* the text of the error has the platform pattern in it
MatchesPattern(err) == err # NilError /\ Contains(err, FatalPattern)

\* the connection sendPing was called on was in the active list and is in
\* the inactive list, Inactive
Invalidated ==
    /\ ev.status \in {ConnectionActive, ConnectionRedundant}
    /\ conns[ev.conn].Status = ConnectionInactive
    /\ ev.conn \in Range(peers[ev.peer].connectionInactive)
    /\ ev.conn \notin Range(peers[ev.peer].connectionActive)

\* C9 as the claim states it: a nil error is not fatal; an error whose text
\* has the pattern "requested address is not valid in its context" is not
\* fatal; every other error is fatal and invalidates an Active or Redundant
\* connection.
C9_Original ==
    ev.type = "sendPing" =>
        /\ ev.err = NilError => ~ev.fatal
        /\ MatchesPattern(ev.err) => ~ev.fatal
        /\ (ev.err # NilError /\ ~MatchesPattern(ev.err)) =>
              /\ ev.fatal
              /\ ev.status \in {ConnectionActive, ConnectionRedundant} => Invalidated

\* C9 as amended: a nil error is not fatal; an error whose text has the
\* pattern is fatal and invalidates an Active or Redundant connection; every
\* other error is not fatal and leaves the connection in its list with its
\* status.  An Inactive connection is never moved.
C9_SendErrorClassification ==
    ev.type = "sendPing" =>
        /\ ev.err = NilError => ~ev.fatal
        /\ ev.fatal <=> MatchesPattern(ev.err)
        /\ MatchesPattern(ev.err) =>
              (ev.status \in {ConnectionActive, ConnectionRedundant} => Invalidated)
        /\ ~MatchesPattern(ev.err) =>
              /\ ~Invalidated
              /\ conns[ev.conn].Status = ev.status
        /\ ev.status = ConnectionInactive =>
              /\ conns[ev.conn].Status = ConnectionInactive
              /\ ev.conn \in Range(peers[ev.peer].connectionInactive)

\* C9 witness: the send on an Active connection failed with "wsasendto:
\* requested address is not valid in its context" and the connection is
\* invalidated.
C9_Witness ==
    /\ ev.type = "sendPing"
    /\ ev.err = <<"wsasendto:">> \o FatalPattern
    /\ ev.status = ConnectionActive
    /\ Invalidated

(***************************************************************************)
(* Commands.go: autoPingAll on one peer, statement by statement, beside a  *)
(* packet worker that holds the peer's lock while it notes a packet.       *)
(***************************************************************************)
\* the goroutine holds the lock, for reading or for writing
Holds(m, g) == g \in m.readers \/ m.writer = g

\* how long ago a connection's last packet can have come in
QuietTimes == {0, pingTime + 1, connectionInvalidate + 1, 4 * connectionInvalidate + 1}

InitPeerLock ==
    /\ now = Epoch
    /\ \E k \in Keys, n \in 1 .. MaxConns - 1 :
       \E status \in [1 .. n -> LiveStatus], quiet \in QuietTimes, expired \in BOOLEAN :
        /\ peerList = [j \in Keys |-> IF j = k THEN 1 ELSE NoPeer]
        /\ peers = [p \in PeerIds |->
                      IF p = 1
                      THEN [PublicKey |-> k,
                            connectionActive |->
                                SelectSeq([i \in 1 .. n |-> i],
                                          LAMBDA c : status[c] # ConnectionInactive),
                            connectionInactive |->
                                SelectSeq([i \in 1 .. n |-> i],
                                          LAMBDA c : status[c] = ConnectionInactive),
                            connectionLatest |-> 1]
                      ELSE NoPeerInfo]
        /\ conns = [c \in ConnIds |->
                      IF c <= n
                      THEN [Status |-> status[c], LastPacketIn |-> now - quiet,
                            LastPingOut |-> 0,
                            Expires |-> IF status[c] = ConnectionInactive
                                        THEN (IF expired THEN now - 1 ELSE now + connectionRemove)
                                        ELSE 0]
                      ELSE NoConnection]
        /\ kQueue = SelectSeq([i \in 1 .. n |-> i], LAMBDA c : status[c] # ConnectionInactive)
    /\ ev = NoEvent
    /\ ticks = 1
    /\ kpc = "active"
    /\ kPeers = {}
    /\ kPeer = 1
    /\ tickTimedOut = {}
    /\ tickPinged = {}
    /\ WorkersIdle
    /\ NetworkIdle
    /\ LocksFree
    /\ IdentityIdle

\* autoPingAll, Commands.go:113-126 and 135-141: the conditions on the next
\* connection of the loop are read; no call of the peer's lock is on the way.
\* Commands.go:133 when the loop over the active connections ends.
SchedulerDecide ==
    /\ kpc \in {"active", "inactive"}
    /\ IF kQueue = <<>>
       THEN /\ kpc = "active"
            /\ CanRLock(peerMutex[kPeer])
            /\ kQueue' = GetConnections(kPeer, FALSE)
            /\ kpc' = "inactive"
            /\ ev' = [type |-> "activeDone"]
       ELSE LET connection == Head(kQueue)
                decision == IF kpc = "active" THEN ActiveDecision(connection)
                            ELSE InactiveDecision(kPeer, connection)
            IN  /\ ev' = [type |-> "decided", phase |-> kpc, conn |-> connection,
                          decision |-> decision]
                /\ IF decision = "none"
                   THEN /\ kQueue' = Tail(kQueue)
                        /\ UNCHANGED kpc
                   ELSE /\ kpc' = decision
                        /\ UNCHANGED kQueue
    /\ UNCHANGED <<idVars, now, peerList, peers, conns, ticks, kPeers, kPeer, tickTimedOut, tickPinged,
                   workerVars, networkVars, lockVars>>

\* autoPingAll, Commands.go:122 and 136: the call decided on, of
\* invalidateActiveConnection or removeInactiveConnection, which changes the
\* peer's lists under the peer's lock.
SchedulerMove ==
    /\ kpc \in {"invalidate", "remove"}
    /\ CanLock(peerMutex[kPeer])
    /\ LET r == IF kpc = "invalidate"
                THEN invalidateActiveConnection(peers, conns, kPeer, ev.conn)
                ELSE removeInactiveConnection(peers, conns, kPeer, ev.conn)
       IN  /\ peers' = r.peers
           /\ conns' = r.conns
    /\ tickTimedOut' = IF kpc = "invalidate" THEN tickTimedOut \cup {ev.conn} ELSE tickTimedOut
    /\ kQueue' = Tail(kQueue)
    /\ kpc' = ev.phase
    /\ ev' = [type |-> kpc, phase |-> ev.phase, conn |-> ev.conn,
              fresh |-> conns[ev.conn].LastPacketIn = now]
    /\ UNCHANGED <<idVars, now, peerList, ticks, kPeers, kPeer, tickPinged, workerVars, networkVars,
                   lockVars>>

\* autoPingAll, Commands.go:127 and 142: peer.sendPing(connection).  sendPing
\* has no call of the peer's lock; invalidateActiveConnection in it has.
SchedulerPing ==
    /\ kpc = "ping"
    /\ \E err \in {NilError, FatalPattern} :
        LET r == sendPing(peers, conns, kPeer, ev.conn, err)
        IN  /\ r.peers # peers => CanLock(peerMutex[kPeer])
            /\ peers' = r.peers
            /\ conns' = r.conns
    /\ tickPinged' = tickPinged \cup {ev.conn}
    /\ kQueue' = Tail(kQueue)
    /\ kpc' = ev.phase
    /\ ev' = [type |-> "ping", phase |-> ev.phase, conn |-> ev.conn,
              fresh |-> conns[ev.conn].LastPacketIn = now]
    /\ UNCHANGED <<idVars, now, peerList, ticks, kPeers, kPeer, tickTimedOut, workerVars, networkVars,
                   lockVars>>

\* A packet worker has a packet of the peer and takes the peer's lock.
WorkerLockPeer ==
    /\ wpc[1] = "idle"
    /\ \E p \in PeerlistGet :
        /\ CanLock(peerMutex[p])
        /\ peerMutex' = [peerMutex EXCEPT ![p] = Lock(@, "worker")]
        /\ wPeer' = [wPeer EXCEPT ![1] = p]
    /\ wpc' = [wpc EXCEPT ![1] = "locked"]
    /\ UNCHANGED <<idVars, registryVars, keepAliveVars, networkVars, networksMutex, peerlistMutex,
                   wMsg, wRet, wSent, addedCount>>

\* The worker notes the packet on a connection of the peer: LastPacketIn = now.
WorkerNotePacket ==
    /\ wpc[1] = "locked"
    /\ \E c \in Range(peers[wPeer[1]].connectionActive)
                  \cup Range(peers[wPeer[1]].connectionInactive) :
        /\ conns[c].LastPacketIn # now
        /\ conns' = [conns EXCEPT ![c].LastPacketIn = now]
    /\ wpc' = [wpc EXCEPT ![1] = "noted"]
    /\ UNCHANGED <<idVars, now, peerList, peers, ev, keepAliveVars, networkVars, lockVars,
                   peerlistMutex, wMsg, wPeer, wRet, wSent, addedCount>>

\* The worker releases the peer's lock.
WorkerUnlockPeer ==
    /\ wpc[1] \in {"locked", "noted"}
    /\ peerMutex' = [peerMutex EXCEPT ![wPeer[1]] = Unlock(@, "worker")]
    /\ wpc' = [wpc EXCEPT ![1] = "done"]
    /\ UNCHANGED <<idVars, registryVars, keepAliveVars, networkVars, networksMutex, peerlistMutex,
                   wMsg, wPeer, wRet, wSent, addedCount>>

NextPeerLock ==
    \/ SchedulerDecide
    \/ SchedulerMove
    \/ SchedulerPing
    \/ WorkerLockPeer
    \/ WorkerNotePacket
    \/ WorkerUnlockPeer

SpecPeerLock == InitPeerLock /\ [][NextPeerLock]_vars

\* the step is the scheduler's: it reads the conditions on a connection, or
\* calls sendPing
SchedulerAccess ==
    \/ kpc \in {"active", "inactive"} /\ kQueue # <<>> /\ ev'.type = "decided"
    \/ kpc \in {"active", "inactive"} /\ kQueue # <<>> /\ kQueue' = Tail(kQueue)
    \/ kpc = "ping" /\ kpc' # "ping"

\* C17 as the claim states it: the scheduler reads the state of a peer's
\* connections and stamps LastPingOut only while it holds the peer's lock,
\* and no other goroutine holds the lock then; so the connection it
\* invalidates has not had a packet since the scheduler read its times.
C17_PerPeerSerialization ==
    [][/\ SchedulerAccess =>
            /\ Holds(peerMutex[kPeer], "scheduler")
            /\ ~Holds(peerMutex[kPeer], "worker")
       /\ (kpc = "invalidate" /\ kpc' # "invalidate") =>
            Before(conns[ev.conn].LastPacketIn,
                   IF conns[ev.conn].Status = ConnectionRedundant
                   THEN thresholdInvalidate2 ELSE thresholdInvalidate1)]_vars

(***************************************************************************)
(* Peer ID.go: the key pair of the peer itself.  The group of the keys is  *)
(* a group of CurveOrder points k*G in place of secp256k1; a private key   *)
(* and the x of a point take one byte in place of 32.                      *)
(***************************************************************************)
HexDigits == <<"0", "1", "2", "3", "4", "5", "6", "7", "8", "9", "a", "b", "c", "d", "e", "f">>

\* hex.EncodeToString: two digits for each byte
RECURSIVE EncodeToString(_)
EncodeToString(bytes) ==
    IF bytes = <<>> THEN <<>>
    ELSE <<HexDigits[(Head(bytes) \div 16) + 1], HexDigits[(Head(bytes) % 16) + 1]>>
         \o EncodeToString(Tail(bytes))

\* the value of a digit of a hex text, -1 if the character is none
FromHexChar(ch) ==
    IF \E i \in 1 .. 16 : HexDigits[i] = ch
    THEN (CHOOSE i \in 1 .. 16 : HexDigits[i] = ch) - 1
    ELSE -1

\* hex.DecodeString: an error for a text of odd length or with a character
\* that is no digit, else one byte for each two digits
DecodeString(text) ==
    IF Len(text) % 2 = 1 \/ \E i \in 1 .. Len(text) : FromHexChar(text[i]) = -1
    THEN [ok |-> FALSE, bytes |-> <<>>]
    ELSE [ok |-> TRUE,
          bytes |-> [i \in 1 .. Len(text) \div 2 |->
                        16 * FromHexChar(text[2 * i - 1]) + FromHexChar(text[2 * i])]]

\* big.Int.SetBytes: the number the bytes are, big-endian
RECURSIVE SetBytes(_)
SetBytes(bytes) ==
    IF bytes = <<>> THEN 0
    ELSE SetBytes(SubSeq(bytes, 1, Len(bytes) - 1)) * 256 + bytes[Len(bytes)]

\* curve.ScalarBaseMult: the point k*G, by its x and whether its y is odd;
\* k*G and (CurveOrder - k)*G have the same x
ScalarBaseMult(k) ==
    LET m == k % CurveOrder
    IN  [x |-> IF 2 * m > CurveOrder THEN CurveOrder - m ELSE m, odd |-> 2 * m > CurveOrder]

\* btcec.PrivKeyFromBytes: the private key whose D is the number the bytes
\* are, and its public key
PrivKeyFromBytes(pk) ==
    [privateKey |-> [D |-> SetBytes(pk)], publicKey |-> ScalarBaseMult(SetBytes(pk))]

\* PublicKey.SerializeCompressed: the format byte, 2 with y even and 3 with
\* y odd, then x
SerializeCompressed(publicKey) == <<IF publicKey.odd THEN 3 ELSE 2, publicKey.x>>

\* PrivateKey.Serialize: D
SerializePrivate(privateKey) == <<privateKey.D>>

\* Secp256k1NewPrivateKey: the key pairs btcec.NewPrivateKey can make
Secp256k1NewPrivateKey ==
    {[privateKey |-> [D |-> d], publicKey |-> ScalarBaseMult(d)] : d \in 1 .. CurveOrder - 1}

\* initPeerID, Peer ID.go:26-31: the key pair of a stored text
LoadKey(text) ==
    LET configPK == DecodeString(text)
        key == PrivKeyFromBytes(configPK.bytes)
    IN  [ok |-> configPK.ok, privateKey |-> key.privateKey, publicKey |-> key.publicKey]

\* the text of the private key of a key pair
StoredKey_Private(key) == EncodeToString(SerializePrivate(key.privateKey))

\* initPeerID, Peer ID.go:46: the text stored for a new key pair,
\* hex.EncodeToString(peerPublicKey.SerializeCompressed())
StoredKey(key) == EncodeToString(SerializeCompressed(key.publicKey))

\* what the configuration file can hold when the first process starts: no
\* key, the text of a private key, a text that is no hex text
ConfigTexts ==
    {<<>>, <<"0">>, <<"z", "z">>}
    \cup {EncodeToString(SerializePrivate(key.privateKey)) : key \in Secp256k1NewPrivateKey}

InitIdentity ==
    /\ now = Epoch
    /\ peerList = [k \in Keys |-> NoPeer]
    /\ peers = [p \in PeerIds |-> NoPeerInfo]
    /\ conns = [c \in ConnIds |-> NoConnection]
    /\ ev = NoEvent
    /\ ticks = 0
    /\ kpc = "off"
    /\ kPeers = {}
    /\ kPeer = NoPeer
    /\ kQueue = <<>>
    /\ tickTimedOut = {}
    /\ tickPinged = {}
    /\ WorkersIdle
    /\ NetworkIdle
    /\ LocksFree
    /\ configPrivateKey \in ConfigTexts
    /\ peerPrivateKey = NoKey
    /\ peerPublicKey = NoKey
    /\ ipc = "start"

notIdVars == <<lockVars, workerVars, networkVars, keepAliveVars, now, peers, conns, ev>>

\* initPeerID, Peer ID.go:22-49.  saveConfig writes config.PrivateKey to
\* the configuration file.
initPeerID ==
    /\ ipc = "start"
    /\ peerList' = [k \in Keys |-> NoPeer]
    /\ IF Len(configPrivateKey) > 0
       THEN LET key == LoadKey(configPrivateKey)
            IN  IF key.ok
                THEN /\ peerPrivateKey' = key.privateKey
                     /\ peerPublicKey' = key.publicKey
                     /\ ipc' = "loaded"
                     /\ UNCHANGED configPrivateKey
                ELSE /\ ipc' = "exit"
                     /\ UNCHANGED <<configPrivateKey, peerPrivateKey, peerPublicKey>>
       ELSE \E made \in BOOLEAN :
            IF made
            THEN \E key \in Secp256k1NewPrivateKey :
                    /\ peerPrivateKey' = key.privateKey
                    /\ peerPublicKey' = key.publicKey
                    /\ configPrivateKey' = StoredKey(key)
                    /\ ipc' = "generated"
            ELSE /\ ipc' = "exit"
                 /\ UNCHANGED <<configPrivateKey, peerPrivateKey, peerPublicKey>>
    /\ UNCHANGED notIdVars

\* The process ends and another starts, with the configuration file as it
\* was left.
Restart ==
    /\ ipc \in {"loaded", "generated", "exit"}
    /\ ipc' = "start"
    /\ peerPrivateKey' = NoKey
    /\ peerPublicKey' = NoKey
    /\ UNCHANGED <<configPrivateKey, peerList, notIdVars>>

NextIdentity ==
    \/ initPeerID
    \/ Restart

SpecIdentity == InitIdentity /\ [][NextIdentity]_vars

\* C22 as the claim states it: when initPeerID has made a key pair and
\* saved it, the text the configuration holds is one that initPeerID loads
\* without error, to the private key and the public key that were made.
C22_IdentityRoundTrip ==
    ipc = "generated" =>
        LET key == LoadKey(configPrivateKey)
        IN  /\ key.ok
            /\ key.privateKey = peerPrivateKey
            /\ key.publicKey = peerPublicKey

====
